---- MODULE Spec2Model ----
(***************************************************************************)
(* Agent orchestration core of legend-guardian: intent compilation         *)
(* (AgentOrchestrator.parse_intent), policy validation (PolicyEngine),     *)
(* step execution (AgentOrchestrator.execute_step), the plan run of the    *)
(* intent endpoint (process_intent) and the memory store (MemoryStore).    *)
(*                                                                         *)
(* Python values are modelled as follows.  A dict is a function from key   *)
(* strings to values (the empty dict is << >>).  Values whose Python type  *)
(* the code inspects (isinstance, truthiness, iteration) carry a tag:      *)
(* [t |-> "str", v |-> ...], [t |-> "list", v |-> ...], [t |-> "dict",     *)
(* v |-> ...], [t |-> "none"].  A call that may raise returns either       *)
(* [ok |-> TRUE, val |-> ...] or [ok |-> FALSE, err |-> message].          *)
(***************************************************************************)
EXTENDS Integers, Sequences, FiniteSets, TLC

\* ------------------------------------------------------------------ bounds
MaxPlanLen == 2
MaxSteps == 3
MaxFrags == 2
MaxCap == 2
MaxOver == 2
MaxAdds == 2

\* ------------------------------------------------------- Python-like values
Str(s) == [t |-> "str", v |-> s]
List(q) == [t |-> "list", v |-> q]
Dict(d) == [t |-> "dict", v |-> d]
NoneVal == [t |-> "none"]

\* the outcome of a call: a returned value, an exception that `except
\* Exception` catches, or asyncio.CancelledError (a BaseException, which
\* `except Exception` does not catch)
Ok(x) == [ok |-> TRUE, val |-> x]
Raise(m) == [ok |-> FALSE, err |-> m, base |-> FALSE]
Cancelled == [ok |-> FALSE, err |-> "CancelledError", base |-> TRUE]

EmptyDict == << >>
\* d.get(k, default)
Get(d, k, default) == IF k \in DOMAIN d THEN d[k] ELSE default
\* d[k] = v
DictSet(d, k, v) == [x \in (DOMAIN d) \cup {k} |-> IF x = k THEN v ELSE d[x]]

Min(a, b) == IF a < b THEN a ELSE b

\* ------------------------------------------------------------------ strings
UpperLetters == {"A","B","C","D","E","F","G","H","I","J","K","L","M",
                 "N","O","P","Q","R","S","T","U","V","W","X","Y","Z"}
LowerLetters == {"a","b","c","d","e","f","g","h","i","j","k","l","m",
                 "n","o","p","q","r","s","t","u","v","w","x","y","z"}
Digits == {"0","1","2","3","4","5","6","7","8","9"}
UpperSeq == "ABCDEFGHIJKLMNOPQRSTUVWXYZ"
LowerSeq == "abcdefghijklmnopqrstuvwxyz"

Char(s, i) == SubSeq(s, i, i)

\* str.lower() on one character
LowerChar(c) ==
    IF c \in UpperLetters
    THEN LET i == CHOOSE j \in 1..26 : Char(UpperSeq, j) = c IN Char(LowerSeq, i)
    ELSE c

\* str.lower()
RECURSIVE lower(_)
lower(s) == IF Len(s) = 0 THEN s
            ELSE LowerChar(Char(s, 1)) \o lower(SubSeq(s, 2, Len(s)))

\* the Python test `sub in s` on strings
Contains(s, sub) ==
    \E i \in 1..(Len(s) - Len(sub) + 1) : SubSeq(s, i, i + Len(sub) - 1) = sub

\* ------------------------------------------------------ regular expressions
\* A pattern is a sequence of tokens: a word boundary [k |-> "b"], the end
\* anchor [k |-> "end"], or a character class with a repetition range
\* [k |-> "cls", cls |-> set of characters, lo |-> n, hi |-> m] (hi = -1 for
\* unbounded).
WordChars == UpperLetters \cup LowerLetters \cup Digits \cup {"_"}
IsWordAt(s, i) == i >= 1 /\ i <= Len(s) /\ Char(s, i) \in WordChars
\* \b at the position before s[p]
Boundary(s, p) == IsWordAt(s, p - 1) # IsWordAt(s, p)
\* $ : at the end, or just before a final newline
AtEnd(s, p) == p = Len(s) + 1 \/ (p = Len(s) /\ Char(s, p) = "\n")

Cls(c, lo, hi) == [k |-> "cls", cls |-> c, lo |-> lo, hi |-> hi]
WordB == [k |-> "b"]
EndA == [k |-> "end"]

\* the positions at which a match of toks[k..] that starts at pos can end
RECURSIVE Ends(_, _, _, _)
Ends(toks, k, s, pos) ==
    IF k > Len(toks) THEN {pos}
    ELSE IF toks[k].k = "b"
         THEN IF Boundary(s, pos) THEN Ends(toks, k + 1, s, pos) ELSE {}
    ELSE IF toks[k].k = "end"
         THEN IF AtEnd(s, pos) THEN Ends(toks, k + 1, s, pos) ELSE {}
    ELSE LET avail == Len(s) - pos + 1
             top == IF toks[k].hi = -1 THEN avail ELSE Min(toks[k].hi, avail)
             ns == {n \in toks[k].lo..top :
                      \A j \in pos..(pos + n - 1) : Char(s, j) \in toks[k].cls}
         IN UNION {Ends(toks, k + 1, s, pos + n) : n \in ns}

\* re.match(pattern, s) is not None
re_match(toks, s) == Ends(toks, 1, s, 1) # {}
\* re.search(pattern, s) is not None
re_search(toks, s) == \E i \in 1..(Len(s) + 1) : Ends(toks, 1, s, i) # {}

\* The match the backtracking matcher of `re` finds for toks[k..] started at
\* pos: quantifiers are greedy, so the longest repetition whose continuation
\* matches is taken.  The result is the end position, or -1 for no match.
RECURSIVE MatchEnd(_, _, _, _), TryCount(_, _, _, _, _)
MatchEnd(toks, k, s, pos) ==
    IF k > Len(toks) THEN pos
    ELSE IF toks[k].k = "b"
         THEN IF Boundary(s, pos) THEN MatchEnd(toks, k + 1, s, pos) ELSE -1
    ELSE IF toks[k].k = "end"
         THEN IF AtEnd(s, pos) THEN MatchEnd(toks, k + 1, s, pos) ELSE -1
    ELSE LET avail == Len(s) - pos + 1
             top == IF toks[k].hi = -1 THEN avail ELSE Min(toks[k].hi, avail)
             run == {n \in 0..top :
                       \A j \in pos..(pos + n - 1) : Char(s, j) \in toks[k].cls}
             longest == CHOOSE n \in run : \A m \in run : m <= n
         IN TryCount(toks, k, s, pos, longest)

\* backtracking: n repetitions of toks[k], then n - 1, ... down to toks[k].lo
TryCount(toks, k, s, pos, n) ==
    IF n < toks[k].lo THEN -1
    ELSE LET e == MatchEnd(toks, k + 1, s, pos + n) IN
         IF e # -1 THEN e ELSE TryCount(toks, k, s, pos, n - 1)

\* re.sub with a plausible fault: only the first match is replaced (count = 1)
RECURSIVE sub_once_from(_, _, _, _)
sub_once_from(toks, repl, s, pos) ==
    IF pos > Len(s) THEN ""
    ELSE LET e == MatchEnd(toks, 1, s, pos) IN
         IF e > pos THEN repl \o SubSeq(s, e, Len(s))
         ELSE Char(s, pos) \o sub_once_from(toks, repl, s, pos + 1)

re_sub_once(toks, repl, s) == sub_once_from(toks, repl, s, 1)

\* the scan of re.sub from position pos: leftmost non-overlapping matches
RECURSIVE sub_from(_, _, _, _)
sub_from(toks, repl, s, pos) ==
    IF pos > Len(s) THEN IF MatchEnd(toks, 1, s, pos) = pos THEN repl ELSE ""
    ELSE LET e == MatchEnd(toks, 1, s, pos) IN
         IF e > pos THEN repl \o sub_from(toks, repl, s, e)
         ELSE IF e = pos THEN repl \o Char(s, pos) \o sub_from(toks, repl, s, pos + 1)
         ELSE Char(s, pos) \o sub_from(toks, repl, s, pos + 1)

\* re.sub(pattern, repl, s)
re_sub(toks, repl, s) == sub_from(toks, repl, s, 1)

\* -------------------------------------------------------------- PolicyEngine
AlNum == UpperLetters \cup LowerLetters \cup Digits
\* \b[A-Za-z0-9._%+-]+@[A-Za-z0-9.-]+\.[A-Z|a-z]{2,}\b
EmailPattern ==
    << WordB, Cls(AlNum \cup {".", "_", "%", "+", "-"}, 1, -1), Cls({"@"}, 1, 1),
       Cls(AlNum \cup {".", "-"}, 1, -1), Cls({"."}, 1, 1),
       Cls(UpperLetters \cup LowerLetters \cup {"|"}, 2, -1), WordB >>
\* \b\d{3}-\d{2}-\d{4}\b
SsnPattern ==
    << WordB, Cls(Digits, 3, 3), Cls({"-"}, 1, 1), Cls(Digits, 2, 2),
       Cls({"-"}, 1, 1), Cls(Digits, 4, 4), WordB >>
\* \b\d{4}[-\s]?\d{4}[-\s]?\d{4}[-\s]?\d{4}\b
WhiteSpace == {" ", "\t", "\n", "\r", "\f"}
CardPattern ==
    << WordB, Cls(Digits, 4, 4), Cls({"-"} \cup WhiteSpace, 0, 1),
       Cls(Digits, 4, 4), Cls({"-"} \cup WhiteSpace, 0, 1),
       Cls(Digits, 4, 4), Cls({"-"} \cup WhiteSpace, 0, 1),
       Cls(Digits, 4, 4), WordB >>
\* \b\d{3}[-.]?\d{3}[-.]?\d{4}\b
PhonePattern ==
    << WordB, Cls(Digits, 3, 3), Cls({"-", "."}, 0, 1), Cls(Digits, 3, 3),
       Cls({"-", "."}, 0, 1), Cls(Digits, 4, 4), WordB >>

\* ^[A-Z][a-zA-Z0-9]*$
ModelNamePattern == << Cls(UpperLetters, 1, 1), Cls(AlNum, 0, -1), EndA >>
\* ^[a-z][a-zA-Z0-9/]*$
ServicePathPattern == << Cls(LowerLetters, 1, 1), Cls(AlNum \cup {"/"}, 0, -1), EndA >>
\* ^[a-z][a-z0-9-]*$
WorkspacePattern ==
    << Cls(LowerLetters, 1, 1), Cls(LowerLetters \cup Digits \cup {"-"}, 0, -1), EndA >>

_load_default_policies ==
    [ pii_patterns |-> << EmailPattern, SsnPattern, CardPattern, PhonePattern >>,
      naming_rules |-> [ model |-> ModelNamePattern,
                         service |-> ServicePathPattern,
                         workspace |-> WorkspacePattern ],
      prohibited_actions |-> {},
      require_approval |-> {"delete", "merge", "publish"},
      max_entities_per_request |-> 100,
      max_review_title_length |-> 200,
      allowed_schema_types |-> {"jsonSchema", "avro", "protobuf"} ]

\* Python truthiness (`if x:`)
Truthy(x) ==
    CASE x.t = "none" -> FALSE
      [] x.t = "str" -> Len(x.v) # 0
      [] x.t = "list" -> Len(x.v) # 0
      [] x.t = "dict" -> DOMAIN x.v # {}

\* the sequence a `for` loop over x visits (a string yields its characters)
Iter(x) ==
    IF x.t = "list" THEN x.v
    ELSE [i \in 1..Len(x.v) |-> Str(Char(x.v, i))]

\* step.get("action") when the key is absent
NoneAction == "<None>"

\* check_value with a plausible fault: lists are not scanned
RECURSIVE check_value_no_lists(_, _)
check_value_no_lists(patterns, value) ==
    IF value.t = "str"
    THEN \E i \in 1..Len(patterns) : re_search(patterns[i], value.v)
    ELSE IF value.t = "dict"
    THEN \E key \in DOMAIN value.v : check_value_no_lists(patterns, value.v[key])
    ELSE FALSE

\* check_value inside _check_pii: TRUE when the scan raises
RECURSIVE check_value(_, _)
check_value(patterns, value) ==
    IF value.t = "str"
    THEN \E i \in 1..Len(patterns) : re_search(patterns[i], value.v)
    ELSE IF value.t = "dict"
    THEN \E key \in DOMAIN value.v : check_value(patterns, value.v[key])
    ELSE IF value.t = "list"
    THEN \E i \in 1..Len(value.v) : check_value(patterns, value.v[i])
    ELSE FALSE

_check_pii(policies, data) ==
    IF check_value(policies.pii_patterns, data)
    THEN Raise("PII detected in parameters")
    ELSE Ok(NoneVal)

\* the replacement text of redact_pii
Sentinel == "[REDACTED]"

\* the loop of redact_pii from pattern i on
RECURSIVE redact_from(_, _, _)
redact_from(patterns, i, text) ==
    IF i > Len(patterns) THEN text
    ELSE redact_from(patterns, i + 1, re_sub(patterns[i], Sentinel, text))

redact_pii(policies, text) == redact_from(policies.pii_patterns, 1, text)

\* the naming branch shared by create_workspace, create_model, generate_service
naming_check(pattern, value, what) ==
    IF value.t # "str" THEN Raise("expected string or bytes-like object")
    ELSE IF ~re_match(pattern, value.v)
    THEN Raise(what \o " '" \o value.v \o "' violates naming policy")
    ELSE Ok(NoneVal)

\* check_action with a plausible fault: the limits are exclusive bounds
check_action_exclusive(policies, action, params) ==
    LET pii == _check_pii(policies, params) IN
    IF ~pii.ok THEN pii
    ELSE IF action = "open_review" /\ params.t = "dict"
            /\ Get(params.v, "title", Str("")).t = "str"
    THEN IF Len(Get(params.v, "title", Str("")).v) >= policies.max_review_title_length
         THEN Raise("Review title exceeds maximum length of "
                    \o ToString(policies.max_review_title_length))
         ELSE Ok(NoneVal)
    ELSE IF action = "upsert_entities" /\ params.t = "dict"
            /\ Get(params.v, "entities", List(<< >>)).t = "list"
    THEN IF Len(Get(params.v, "entities", List(<< >>)).v)
               >= policies.max_entities_per_request
         THEN Raise("Too many entities")
         ELSE Ok(NoneVal)
    ELSE Ok(NoneVal)

check_action(policies, action, params) ==
    LET pii == _check_pii(policies, params)
        noGet == Raise("object has no attribute 'get'")
    IN
    IF ~pii.ok THEN pii
    ELSE IF action \notin {"create_workspace", "create_model", "generate_service",
                           "open_review", "upsert_entities", "transform_schema"}
    THEN Ok(NoneVal)
    ELSE IF params.t # "dict" THEN noGet
    ELSE IF action = "create_workspace"
    THEN naming_check(policies.naming_rules.workspace,
                      Get(params.v, "workspace_id", Str("")), "Workspace ID")
    ELSE IF action = "create_model"
    THEN naming_check(policies.naming_rules.model,
                      Get(params.v, "name", Str("")), "Model name")
    ELSE IF action = "generate_service"
    THEN naming_check(policies.naming_rules.service,
                      Get(params.v, "path", Str("")), "Service path")
    ELSE IF action = "open_review"
    THEN LET title == Get(params.v, "title", Str("")) IN
         IF title.t \notin {"str", "list"} THEN Raise("object has no len()")
         ELSE IF Len(title.v) > policies.max_review_title_length
         THEN Raise("Review title exceeds maximum length of "
                    \o ToString(policies.max_review_title_length))
         ELSE Ok(NoneVal)
    ELSE IF action = "upsert_entities"
    THEN LET entities == Get(params.v, "entities", List(<< >>)) IN
         IF entities.t \notin {"str", "list"} THEN Raise("object has no len()")
         ELSE IF Len(entities.v) > policies.max_entities_per_request
         THEN Raise("Too many entities: " \o ToString(Len(entities.v)) \o " > "
                    \o ToString(policies.max_entities_per_request))
         ELSE Ok(NoneVal)
    ELSE LET schema_type == Get(params.v, "format", Str("")) IN
         IF ~(schema_type.t = "str" /\ schema_type.v \in policies.allowed_schema_types)
         THEN Raise("Schema type not allowed")
         ELSE Ok(NoneVal)

\* the loop body with plausible faults: the message of the violation is not
\* attached; the approval flag and the parameter check are alternatives
annotated_unflagged(policies, step) ==
    IF Get(step, "action", NoneAction) \in policies.require_approval
    THEN DictSet(step, "requires_approval", TRUE)
    ELSE step

annotated_alternatives(policies, step) ==
    LET action == Get(step, "action", NoneAction)
        params == Get(step, "params", Dict(EmptyDict))
        chk == check_action(policies, action, params)
    IN IF action \in policies.require_approval
       THEN DictSet(step, "requires_approval", TRUE)
       ELSE IF chk.ok THEN step ELSE DictSet(step, "validation_error", chk.err)

\* what the loop body of validate_plan does to a step it keeps (the dict is
\* changed in place)
annotated(policies, step) ==
    LET action == Get(step, "action", NoneAction)
        params == Get(step, "params", Dict(EmptyDict))
        flagged == IF action \in policies.require_approval
                   THEN DictSet(step, "requires_approval", TRUE)
                   ELSE step
        chk == check_action(policies, action, params)
    IN IF chk.ok THEN flagged ELSE DictSet(flagged, "validation_error", chk.err)

\* validate_plan with a plausible fault: a step that fails check_action is
\* dropped instead of being annotated
RECURSIVE validate_from_dropping(_, _, _, _)
validate_from_dropping(policies, items, i, validated_steps) ==
    IF i > Len(items) THEN Ok(validated_steps)
    ELSE IF items[i].t # "dict" THEN Raise("object has no attribute 'get'")
    ELSE LET step == items[i].v
             action == Get(step, "action", NoneAction)
             params == Get(step, "params", Dict(EmptyDict))
         IN
         IF action \in policies.prohibited_actions
         THEN validate_from_dropping(policies, items, i + 1, validated_steps)
         ELSE LET flagged == IF action \in policies.require_approval
                             THEN DictSet(step, "requires_approval", TRUE)
                             ELSE step
                  chk == check_action(policies, action, params)
              IN validate_from_dropping(policies, items, i + 1,
                    IF chk.ok THEN Append(validated_steps, Dict(flagged))
                    ELSE validated_steps)

\* one iteration of the loop of validate_plan, then the rest of the loop
RECURSIVE validate_from(_, _, _, _)
validate_from(policies, items, i, validated_steps) ==
    IF i > Len(items) THEN Ok(validated_steps)
    ELSE IF items[i].t # "dict" THEN Raise("object has no attribute 'get'")
    ELSE LET step == items[i].v
             action == Get(step, "action", NoneAction)
         IN
         IF action \in policies.prohibited_actions
         THEN validate_from(policies, items, i + 1, validated_steps)
         ELSE validate_from(policies, items, i + 1,
                            Append(validated_steps, Dict(annotated(policies, step))))

\* PolicyEngine.validate_plan(steps); steps is any iterable value
validate_plan(policies, steps) == validate_from(policies, Iter(steps), 1, << >>)

\* ---------------------------------------------------------------- LLMClient
MkStep(action, params) == Dict([action |-> action, params |-> Dict(params)])

\* LLMClient.parse_intent as shipped: a keyword placeholder
LLMClient_parse_intent(prompt) ==
    LET prompt_lower == lower(prompt)
        has(w) == Contains(prompt_lower, w)
    IN  (IF has("create") /\ has("workspace")
         THEN << MkStep("sdlc.create_workspace", EmptyDict) >> ELSE << >>)
     \o (IF has("compile") THEN << MkStep("engine.compile", EmptyDict) >> ELSE << >>)
     \o (IF has("test") THEN << MkStep("engine.run_tests", EmptyDict) >> ELSE << >>)
     \o (IF has("deploy") \/ has("publish")
         THEN << MkStep("engine.deploy", EmptyDict) >> ELSE << >>)
     \o (IF has("review") \/ has("pr")
         THEN << MkStep("sdlc.open_review",
                        [title |-> Str("Review from Legend Guardian"),
                         description |-> Str(prompt)]) >>
         ELSE << >>)

\* ------------------------------------------------------------- MemoryStore
\* the Python slice q[start:]
SliceFrom(q, start) ==
    LET first == IF start < 0 THEN (IF Len(q) + start < 0 THEN 0 ELSE Len(q) + start)
                 ELSE start
    IN SubSeq(q, first + 1, Len(q))

\* datetime.utcnow().isoformat(); time is not modelled
isoformat_now == "2024-01-01T00:00:00"

\* item["timestamp"] = item.get("timestamp", datetime.utcnow().isoformat())
Stamped(item) == DictSet(item, "timestamp", Get(item, "timestamp", isoformat_now))

\* add_episode with a plausible fault: past the capacity the newest entries
\* are dropped
add_episode_keep_oldest(episodes, max_episodes, episode) ==
    LET appended == Append(episodes, Stamped(episode)) IN
    IF Len(appended) > max_episodes
    THEN SubSeq(appended, 1, max_episodes)
    ELSE appended

add_episode(episodes, max_episodes, episode) ==
    LET appended == Append(episodes, Stamped(episode)) IN
    IF Len(appended) > max_episodes
    THEN SliceFrom(appended, -max_episodes)
    ELSE appended

add_action(actions, max_episodes, action) ==
    LET appended == Append(actions, Stamped(action)) IN
    IF Len(appended) > max_episodes * 10
    THEN SliceFrom(appended, -(max_episodes * 10))
    ELSE appended

\* get_recent_episodes / get_recent_actions: `xs[-count:] if xs else []`
get_recent(entries, count) ==
    IF Len(entries) # 0 THEN SliceFrom(entries, -count) ELSE << >>

\* the maximal runs of characters of s that are not whitespace
Words(s) ==
    {w \in {[from |-> i, to |-> j] : i \in 1..Len(s), j \in 1..Len(s)} :
        /\ w.from <= w.to
        /\ \A k \in w.from..w.to : Char(s, k) \notin WhiteSpace
        /\ (w.from = 1 \/ Char(s, w.from - 1) \in WhiteSpace)
        /\ (w.to = Len(s) \/ Char(s, w.to + 1) \in WhiteSpace)}

\* set(s.split())
split(s) == {SubSeq(s, w.from, w.to) : w \in Words(s)}

\* the score of find_similar_episodes, a quotient of two lengths
Score(keywords, episode) ==
    LET ep_keywords == split(lower(Get(episode, "prompt", "")))
        common == keywords \cap ep_keywords
    IN [num |-> Cardinality(common),
        den |-> IF Cardinality(keywords) > 1 THEN Cardinality(keywords) ELSE 1]

Greater(a, b) == a.num * b.den > b.num * a.den

\* list.sort(key = score, reverse = True): a stable sort, entries with equal
\* score keep the order they had
RECURSIVE sort_desc(_)
sort_desc(q) ==
    IF Len(q) <= 1 THEN q
    ELSE LET front == sort_desc(SubSeq(q, 1, Len(q) - 1))
             x == q[Len(q)]
             before == Cardinality({i \in 1..Len(front) : ~Greater(x.score, front[i].score)})
         IN SubSeq(front, 1, before) \o << x >> \o SubSeq(front, before + 1, Len(front))

\* the Python slice q[:stop]
SliceTo(q, stop) ==
    LET last == IF stop < 0 THEN (IF Len(q) + stop < 0 THEN 0 ELSE Len(q) + stop)
                ELSE Min(stop, Len(q))
    IN SubSeq(q, 1, last)

\* find_similar_episodes with a plausible fault: the scored list is cut to
\* the limit before it is sorted
find_similar_episodes_cut_first(episodes, prompt, limit) ==
    LET keywords == split(lower(prompt))
        all == [i \in 1..Len(episodes) |->
                   [score |-> Score(keywords, episodes[i]), episode |-> episodes[i]]]
        scored_episodes == SelectSeq(all, LAMBDA x : x.score.num > 0)
        top == sort_desc(SliceTo(scored_episodes, limit))
    IN [i \in 1..Len(top) |-> top[i].episode]

find_similar_episodes(episodes, prompt, limit) ==
    LET keywords == split(lower(prompt))
        all == [i \in 1..Len(episodes) |->
                   [score |-> Score(keywords, episodes[i]), episode |-> episodes[i]]]
        scored_episodes == SelectSeq(all, LAMBDA x : x.score.num > 0)
        top == SliceTo(sort_desc(scored_episodes), limit)
    IN [i \in 1..Len(top) |-> top[i].episode]

\* MemoryStore.set_context
set_context(context, key, value) == DictSet(context, key, value)

\* self.context.clear()
clear_context(context) == EmptyDict

\* MemoryStore.export_history; self is the store
export_history(self) ==
    [episodes |-> self.episodes, actions |-> self.actions,
     context |-> self.context, exported_at |-> isoformat_now]

\* import_history with a plausible fault: the context is not taken over
import_history_without_context(self, data) ==
    [episodes |-> IF "episodes" \in DOMAIN data THEN data["episodes"] ELSE self.episodes,
     actions |-> IF "actions" \in DOMAIN data THEN data["actions"] ELSE self.actions,
     context |-> self.context]

\* MemoryStore.import_history: the store afterwards
import_history(self, data) ==
    [episodes |-> IF "episodes" \in DOMAIN data THEN data["episodes"] ELSE self.episodes,
     actions |-> IF "actions" \in DOMAIN data THEN data["actions"] ELSE self.actions,
     context |-> IF "context" \in DOMAIN data THEN data["context"] ELSE self.context]

\* -------------------------------------------------------- AgentOrchestrator
_extract_model_params(prompt) ==
    IF Contains(lower(prompt), "trade") THEN [name |-> Str("Trade")]
    ELSE IF Contains(lower(prompt), "position") THEN [name |-> Str("Position")]
    ELSE [name |-> Str("Model")]

_extract_service_params(prompt) ==
    IF Contains(prompt, "byNotional") THEN [path |-> Str("trades/byNotional")]
    ELSE IF Contains(prompt, "byTicker") THEN [path |-> Str("trades/byTicker")]
    ELSE [path |-> Str("service/generated")]

\* the fallback with a plausible fault: the predicates are an if/elif chain
rule_based_elif(prompt) ==
    LET prompt_lower == lower(prompt)
        has(w) == Contains(prompt_lower, w)
    IN  IF has("create") /\ has("model")
        THEN << MkStep("create_model", _extract_model_params(prompt)) >>
        ELSE IF has("compile") THEN << MkStep("compile", EmptyDict) >>
        ELSE IF has("generate") /\ has("service")
        THEN << MkStep("generate_service", _extract_service_params(prompt)) >>
        ELSE IF has("open") /\ (has("pr") \/ has("review"))
        THEN << MkStep("open_review", [title |-> Str("Changes from agent")]) >>
        ELSE IF has("publish") THEN << MkStep("publish", EmptyDict) >>
        ELSE << >>

\* the rule-based fallback of parse_intent, before validation
rule_based(prompt) ==
    LET prompt_lower == lower(prompt)
        has(w) == Contains(prompt_lower, w)
    IN  (IF has("create") /\ has("model")
         THEN << MkStep("create_model", _extract_model_params(prompt)) >> ELSE << >>)
     \o (IF has("compile") THEN << MkStep("compile", EmptyDict) >> ELSE << >>)
     \o (IF has("generate") /\ has("service")
         THEN << MkStep("generate_service", _extract_service_params(prompt)) >>
         ELSE << >>)
     \o (IF has("open") /\ (has("pr") \/ has("review"))
         THEN << MkStep("open_review", [title |-> Str("Changes from agent")]) >>
         ELSE << >>)
     \o (IF has("publish") THEN << MkStep("publish", EmptyDict) >> ELSE << >>)

\* the body of the try block of parse_intent; llm is the outcome of the call
\* of the NL-model collaborator.  returned = FALSE: the block fell through.
try_llm(policies, llm) ==
    IF ~llm.ok THEN llm
    ELSE IF ~Truthy(llm.val) THEN [ok |-> TRUE, returned |-> FALSE]
    ELSE IF llm.val.t \notin {"str", "list"} THEN Raise("object has no len()")
    ELSE LET v == validate_plan(policies, llm.val) IN
         IF ~v.ok THEN v ELSE [ok |-> TRUE, returned |-> TRUE, val |-> v.val]

\* parse_intent with a plausible fault: no except clause around the call of
\* the NL model
parse_intent_no_except(policies, prompt, llm) ==
    LET t == try_llm(policies, llm) IN
    IF ~t.ok THEN t
    ELSE IF t.returned THEN Ok(t.val)
    ELSE validate_plan(policies, List(rule_based(prompt)))

\* AgentOrchestrator.parse_intent: the returned plan (the caller stores the
\* episode, see ParseIntent)
parse_intent(policies, prompt, llm) ==
    LET t == try_llm(policies, llm) IN
    IF t.ok /\ t.returned THEN Ok(t.val)
    ELSE IF ~t.ok /\ t.base THEN t
    ELSE validate_plan(policies, List(rule_based(prompt)))

\* ------------------------------------------------------ adapters (clients)
\* What the services do during one execute_step call: sdlc is the outcome of
\* the SDLC request ("ok", "raise", "cancel"; for get_entities also "empty":
\* no entity, "unconvertible": entities that are neither Class nor Mapping),
\* engine the outcome of the HTTP request of EngineClient.compile, depot the
\* outcome of the depot request.
SdlcOutcomes == {"ok", "raise", "cancel"}
EntityOutcomes == SdlcOutcomes \cup {"empty", "unconvertible"}
EngineResponses == {"SUCCESS", "FAILURE", "raise", "cancel"}
DepotOutcomes == {"ok", "raise", "cancel"}
Adapters(s, e, d) == [sdlc |-> s, engine |-> e, depot |-> d]

\* a request of SDLCClient / DepotClient: returns, raises "... API error" or
\* is cancelled while awaited
client_request(outcome, name) ==
    IF outcome = "cancel" THEN Cancelled
    ELSE IF outcome = "raise" THEN Raise(name \o " API error")
    ELSE Ok([id |-> "1"])

\* EngineClient.compile: the HTTP failure is caught and reported as a status
EngineClient_compile(response) ==
    IF response = "cancel" THEN Cancelled
    ELSE IF response = "raise"
    THEN Ok([status |-> "error", errors |-> << "Engine API error" >>])
    ELSE IF response = "SUCCESS" THEN Ok([status |-> "success"])
    ELSE Ok([status |-> "error", errors |-> << >>])

\* ---------------------------------------------------------------- handlers
\* A handler returns its outcome and the adapter calls it made, in order,
\* each with what the adapter answered.
Handled(out, made) == [out |-> out, calls |-> made]
Called(name, out) == [call |-> name, out |-> out]
\* how an outcome is written in the list of calls
OutcomeName(r) == IF r.ok THEN "ok" ELSE IF r.base THEN "cancel" ELSE "raise"

_create_workspace(params, o) ==
    IF ~({"project_id", "workspace_id"} \subseteq DOMAIN params.v)
    THEN Handled(Raise("KeyError"), << >>)
    ELSE Handled(client_request(o.sdlc, "SDLC"),
                 << Called("sdlc.create_workspace", o.sdlc) >>)

_create_model(params, o) ==
    LET model_name == Get(params.v, "name", Str("GeneratedModel"))
        r == client_request(o.sdlc, "SDLC")
    IN Handled(IF r.ok THEN Ok([model |-> model_name.v]) ELSE r,
               << Called("sdlc.upsert_entities", o.sdlc) >>)

_compile(params, o) ==
    LET got == << Called("sdlc.get_entities", o.sdlc) >> IN
    IF o.sdlc = "cancel" THEN Handled(Cancelled, got)
    ELSE IF o.sdlc = "raise"
    THEN Handled(Ok([status |-> "error", errors |-> << "SDLC API error" >>]), got)
    ELSE IF o.sdlc = "empty"
    THEN Handled(Ok([status |-> "error",
                     errors |-> << "No entities found in workspace" >>]), got)
    ELSE IF o.sdlc = "unconvertible"
    THEN Handled(Ok([status |-> "error",
                     errors |-> << "Failed to convert entities to PURE" >>]), got)
    ELSE LET result == EngineClient_compile(o.engine) IN
         IF ~result.ok
         THEN Handled(result, got \o << Called("engine.compile", "cancel") >>)
         ELSE Handled(Ok([status |-> IF result.val.status = "success"
                                     THEN "success" ELSE "failed",
                          errors |-> Get(result.val, "errors", << >>)]),
                      got \o << Called("engine.compile", result.val.status) >>)

_generate_service(params, o) ==
    LET service_path == Get(params.v, "path", Str("generated/service"))
        r == client_request(o.sdlc, "SDLC")
    IN Handled(IF r.ok THEN Ok([service_path |-> service_path.v, status |-> "defined"])
               ELSE IF r.base THEN r
               ELSE Ok([status |-> "error", error |-> r.err]),
               << Called("sdlc.upsert_entities", o.sdlc) >>)

_open_review(params, o) ==
    LET r == client_request(o.sdlc, "SDLC") IN
    Handled(IF r.ok THEN Ok([review_id |-> r.val.id, state |-> "opened"])
            ELSE IF r.base THEN r
            ELSE Ok([status |-> "error", error |-> r.err]),
            << Called("sdlc.create_review", o.sdlc) >>)

_publish(params, o) ==
    Handled(client_request(o.depot, "Depot"), << Called("depot.publish", o.depot) >>)

\* the keys of the dispatch table of execute_step
handlers ==
    {"create_workspace", "create_model", "create_mapping", "compile",
     "generate_service", "open_review", "search_depot", "import_model",
     "transform_schema", "run_tests", "publish", "apply_changes",
     "create_v2_service", "create_service", "analyze_table", "generate_model",
     "add_constraints", "plan_ingestion", "execute_backfill", "validate_sample",
     "record_manifest"}

\* the handlers the plans of this model dispatch to
ModelledHandlers ==
    {"create_workspace", "create_model", "compile", "generate_service",
     "open_review", "publish"}

\* the handlers of the other keys of the table, reduced to what a caller of
\* execute_step observes: they call their adapters and return a dict, or an
\* exception of theirs propagates
_other_handler(action, params, o) ==
    Handled(IF o.sdlc = "ok" THEN Ok([status |-> "ok", action |-> action])
            ELSE Raise(action \o " failed"),
            << Called("adapters", o.sdlc) >>)

handler(action, params, o) ==
    CASE action = "create_workspace" -> _create_workspace(params, o)
      [] action = "create_model" -> _create_model(params, o)
      [] action = "compile" -> _compile(params, o)
      [] action = "generate_service" -> _generate_service(params, o)
      [] action = "open_review" -> _open_review(params, o)
      [] action = "publish" -> _publish(params, o)
      [] OTHER -> _other_handler(action, params, o)

\* the behaviours of the services that matter to the handler of an action
AdapterChoices(action) ==
    CASE action = "compile" ->
           {Adapters(s, "SUCCESS", "ok") : s \in EntityOutcomes \ {"ok"}}
           \cup {Adapters("ok", e, "ok") : e \in EngineResponses}
      [] action = "publish" -> {Adapters("ok", "SUCCESS", d) : d \in DepotOutcomes}
      [] action \in ModelledHandlers \ {"compile", "publish"} ->
           {Adapters(s, "SUCCESS", "ok") : s \in SdlcOutcomes}
      [] action \in handlers \ ModelledHandlers ->
           {Adapters(s, "SUCCESS", "ok") : s \in {"ok", "raise"}}
      [] OTHER -> {Adapters("ok", "SUCCESS", "ok")}

\* AgentOrchestrator.execute_step; self holds the policy engine and the
\* memory store.  Returns the outcome, the calls made in order and the
\* action records of the memory store afterwards.
Executed(out, trace, recorded) == [out |-> out, trace |-> trace, actions |-> recorded]

\* execute_step with plausible faults: the record is written in a finally
\* clause; the policy check comes before the table lookup; the outcome of the
\* policy check is ignored
execute_step_always_records(self, action, params, o) ==
    IF action \notin handlers
    THEN Executed(Raise("Unknown action: " \o action), << >>, self.actions)
    ELSE LET chk == check_action(self.policies, action, params) IN
         IF ~chk.ok
         THEN Executed(chk, << Called("check_action", "raise") >>, self.actions)
         ELSE LET h == handler(action, params, o)
                  sofar == << Called("check_action", "ok"),
                              Called("handler", OutcomeName(h.out)) >> \o h.calls
              IN Executed(h.out,
                          sofar \o << Called("memory.add_action", "ok") >>,
                          add_action(self.actions, self.max_episodes,
                                     [action |-> action, params |-> params,
                                      result |-> IF h.out.ok THEN h.out.val
                                                 ELSE NoneVal]))

execute_step_check_first(self, action, params, o) ==
    LET chk == check_action(self.policies, action, params) IN
    IF ~chk.ok
    THEN Executed(chk, << Called("check_action", "raise") >>, self.actions)
    ELSE IF action \notin handlers
    THEN Executed(Raise("Unknown action: " \o action),
                  << Called("check_action", "ok") >>, self.actions)
    ELSE LET h == handler(action, params, o)
             sofar == << Called("check_action", "ok"),
                         Called("handler", OutcomeName(h.out)) >> \o h.calls
         IN
         IF ~h.out.ok
         THEN Executed(h.out, sofar, self.actions)
         ELSE Executed(h.out,
                       sofar \o << Called("memory.add_action", "ok") >>,
                       add_action(self.actions, self.max_episodes,
                                  [action |-> action, params |-> params,
                                   result |-> h.out.val]))

execute_step_unchecked(self, action, params, o) ==
    IF action \notin handlers
    THEN Executed(Raise("Unknown action: " \o action), << >>, self.actions)
    ELSE LET chk == check_action(self.policies, action, params)
             h == handler(action, params, o)
             sofar == << Called("check_action", OutcomeName(chk)),
                         Called("handler", OutcomeName(h.out)) >> \o h.calls
         IN
         IF ~h.out.ok
         THEN Executed(h.out, sofar, self.actions)
         ELSE Executed(h.out,
                       sofar \o << Called("memory.add_action", "ok") >>,
                       add_action(self.actions, self.max_episodes,
                                  [action |-> action, params |-> params,
                                   result |-> h.out.val]))

\* execute_step with a plausible fault: an action that requires approval is
\* refused
execute_step_gated(self, action, params, o) ==
    IF action \notin handlers
    THEN Executed(Raise("Unknown action: " \o action), << >>, self.actions)
    ELSE LET chk == IF action \in self.policies.require_approval
                    THEN Raise("Approval required: " \o action)
                    ELSE check_action(self.policies, action, params)
         IN
         IF ~chk.ok
         THEN Executed(chk, << Called("check_action", "raise") >>, self.actions)
         ELSE LET h == handler(action, params, o)
                  sofar == << Called("check_action", "ok"),
                              Called("handler", OutcomeName(h.out)) >> \o h.calls
              IN
              IF ~h.out.ok
              THEN Executed(h.out, sofar, self.actions)
              ELSE Executed(h.out,
                            sofar \o << Called("memory.add_action", "ok") >>,
                            add_action(self.actions, self.max_episodes,
                                       [action |-> action, params |-> params,
                                        result |-> h.out.val]))

execute_step(self, action, params, o) ==
    IF action \notin handlers
    THEN Executed(Raise("Unknown action: " \o action), << >>, self.actions)
    ELSE LET chk == check_action(self.policies, action, params) IN
         IF ~chk.ok
         THEN Executed(chk, << Called("check_action", "raise") >>, self.actions)
         ELSE LET h == handler(action, params, o)
                  sofar == << Called("check_action", "ok"),
                              Called("handler", OutcomeName(h.out)) >> \o h.calls
              IN
              IF ~h.out.ok
              THEN Executed(h.out, sofar, self.actions)
              ELSE Executed(h.out,
                            sofar \o << Called("memory.add_action", "ok") >>,
                            add_action(self.actions, self.max_episodes,
                                       [action |-> action, params |-> params,
                                        result |-> h.out.val]))

\* ------------------------------------------------------------ the inputs
\* MemoryStore.__init__(max_episodes = 1000)
DefaultMaxEpisodes == 1000

Prompts ==
    {"", "hello world", "create a trade model then compile",
     "Open a review and publish", "generate a service byTicker",
     "create position model, open PR for a@b.co",
     "Compile it, then CREATE a trade model",
     "publish, open a review, generate the service, compile, create a model"}

\* the steps an NL model may answer with
StepPool ==
    { MkStep("create_model", [name |-> Str("Trade")]),
      MkStep("create_model", [name |-> Str("trade")]),
      MkStep("compile", EmptyDict),
      MkStep("open_review", [title |-> Str("fix")]),
      MkStep("publish", EmptyDict),
      MkStep("delete", EmptyDict),
      MkStep("notify", [to |-> Str("a@b.co")]) }

\* the behaviours of the NL-model collaborator other than answering with a
\* list of steps: the shipped placeholder, an exception, no answer, an empty
\* answer, and three malformed answers
LLMModes == {"stub", "raise", "none", "empty", "str", "nodict", "noaction"}
ListPrompt == "run the plan"

SeqsUpTo(S, n) == UNION {[1..k -> S] : k \in 1..n}

VARIABLES
    prompt,        \* request.prompt
    execute,       \* request.execute
    debug,         \* settings.debug
    llmMode,       \* how the NL-model collaborator behaves in this request
    llmItems,      \* its answer when llmMode = "list"
    policies,      \* PolicyEngine.policies
    max_episodes,  \* MemoryStore.max_episodes
    episodes,      \* MemoryStore.episodes
    actions,       \* MemoryStore.actions
    context,       \* MemoryStore.context
    pc,            \* where process_intent stands
    parsed,        \* the outcome of parse_intent
    steps,         \* the Step list of process_intent
    cur,           \* the index (from 1) of the step the loop is at
    status,        \* the status of the response
    calls,         \* a log of the calls made so far, in order
    callArgs,      \* the argument of a direct call of a PolicyEngine method
    callRet        \* what that call returned

inputVars == << prompt, execute, debug, llmMode, llmItems >>
policyVars == << policies >>
memVars == << max_episodes, episodes, actions, context >>
runVars == << pc, parsed, steps, cur, status, calls >>
callVars == << callArgs, callRet >>
vars == << inputVars, policyVars, memVars, runVars, callVars >>

\* the outcome of `await self.llm_client.parse_intent(prompt, context)`
llm_call ==
    CASE llmMode = "stub" -> Ok(List(LLMClient_parse_intent(prompt)))
      [] llmMode = "raise" -> Raise("LLM error")
      [] llmMode = "none" -> Ok(NoneVal)
      [] llmMode = "empty" -> Ok(List(<< >>))
      [] llmMode = "str" -> Ok(Str("oops"))
      [] llmMode = "nodict" -> Ok(List(<< Str("create_model") >>))
      [] llmMode = "noaction" -> Ok(List(<< Dict([params |-> Dict(EmptyDict)]) >>))
      [] llmMode = "list" -> Ok(List(llmItems))

\* --------------------------------------------------------- process_intent
\* Step(id = f"step_{i}", action = step["action"], params = step.get("params", {}))
NewStep(i, item) ==
    [ id |-> "step_" \o ToString(i - 1),
      action |-> item.v["action"],
      params |-> Get(item.v, "params", Dict(EmptyDict)),
      status |-> "pending",
      result |-> NoneVal,
      error |-> NoneVal,
      started_at |-> NoneVal,
      completed_at |-> NoneVal ]

utcnow == [t |-> "datetime"]

\* whether the conversion of the plan to Step objects succeeds
Convertible(plan) ==
    \A i \in 1..Len(plan) :
        /\ "action" \in DOMAIN plan[i].v
        /\ Get(plan[i].v, "params", Dict(EmptyDict)).t = "dict"

\* overall_status with a plausible fault: any() where the code has all()
overall_status_any(exec, stepList) ==
    IF ~exec THEN "planned"
    ELSE IF \E i \in 1..Len(stepList) : stepList[i].status = "completed"
    THEN "completed"
    ELSE IF \E i \in 1..Len(stepList) : stepList[i].status = "failed"
    THEN "failed"
    ELSE "partial"

\* the overall status with a plausible fault: a run fails only if its last
\* step failed
overall_status_last(exec, stepList) ==
    IF ~exec THEN "planned"
    ELSE IF \A i \in 1..Len(stepList) : stepList[i].status = "completed"
    THEN "completed"
    ELSE IF stepList[Len(stepList)].status = "failed"
    THEN "failed"
    ELSE "partial"

\* the overall status of the response
overall_status(exec, stepList) ==
    IF ~exec THEN "planned"
    ELSE IF \A i \in 1..Len(stepList) : stepList[i].status = "completed"
    THEN "completed"
    ELSE IF \E i \in 1..Len(stepList) : stepList[i].status = "failed"
    THEN "failed"
    ELSE "partial"

\* the break with a plausible fault: the loop never stops on an error
stops_on_error_never(dbg) == FALSE

\* `if not settings.debug: break`
stops_on_error(dbg) == ~dbg

Init ==
    /\ \/ /\ llmMode \in LLMModes
          /\ prompt \in Prompts
          /\ llmItems = << >>
       \/ /\ llmMode = "list"
          /\ prompt = ListPrompt
          /\ llmItems \in SeqsUpTo(StepPool, MaxPlanLen)
    /\ execute \in BOOLEAN
    /\ debug \in BOOLEAN
    /\ policies = _load_default_policies
    /\ max_episodes = DefaultMaxEpisodes
    /\ episodes = << >>
    /\ actions = << >>
    /\ context = EmptyDict
    /\ pc = "request"
    /\ parsed = NoneVal
    /\ steps = << >>
    /\ cur = 0
    /\ status = "none"
    /\ calls = << >>
    /\ callArgs = NoneVal
    /\ callRet = NoneVal

\* orchestrator.parse_intent(...) and the conversion of the plan to Steps
ParseIntent ==
    /\ pc = "request"
    /\ LET r == parse_intent(policies, prompt, llm_call) IN
       /\ parsed' = r
       /\ episodes' = IF r.ok
                      THEN add_episode(episodes, max_episodes,
                                       [prompt |-> prompt, plan |-> r.val])
                      ELSE episodes
       /\ IF r.ok /\ Convertible(r.val)
          THEN /\ steps' = [i \in 1..Len(r.val) |-> NewStep(i, r.val[i])]
               /\ cur' = 1
               /\ pc' = IF execute THEN "loop" ELSE "status"
          ELSE /\ pc' = "http500"
               /\ UNCHANGED << steps, cur >>
    /\ UNCHANGED << inputVars, policyVars, max_episodes, actions, context,
                    status, calls, callVars >>

\* the head of the loop body with a plausible fault: the status is not set
StartStep_without_running ==
    /\ pc = "loop"
    /\ cur <= Len(steps)
    /\ steps' = [steps EXCEPT ![cur].started_at = utcnow]
    /\ pc' = "exec"
    /\ UNCHANGED << inputVars, policyVars, memVars, parsed, cur, status, calls,
                    callVars >>

\* the head of the loop body: the step is marked running
StartStep ==
    /\ pc = "loop"
    /\ cur <= Len(steps)
    /\ steps' = [steps EXCEPT ![cur].started_at = utcnow, ![cur].status = "running"]
    /\ pc' = "exec"
    /\ UNCHANGED << inputVars, policyVars, memVars, parsed, cur, status, calls,
                    callVars >>

\* `await orchestrator.execute_step(...)` and the bookkeeping after it
ExecuteStep ==
    /\ pc = "exec"
    /\ \E o \in AdapterChoices(steps[cur].action) :
         LET self == [policies |-> policies, actions |-> actions,
                      max_episodes |-> max_episodes]
             r == execute_step(self, steps[cur].action, steps[cur].params, o)
         IN
         /\ calls' = calls \o [i \in 1..Len(r.trace) |->
                                 [step |-> cur, call |-> r.trace[i].call,
                                  out |-> r.trace[i].out]]
         /\ actions' = r.actions
         /\ IF r.out.ok
            THEN /\ steps' = [steps EXCEPT ![cur].status = "completed",
                                           ![cur].result = r.out.val,
                                           ![cur].completed_at = utcnow]
                 /\ cur' = cur + 1
                 /\ pc' = "loop"
            ELSE IF r.out.base
            THEN /\ pc' = "cancelled"
                 /\ UNCHANGED << steps, cur >>
            ELSE /\ steps' = [steps EXCEPT ![cur].status = "failed",
                                           ![cur].error = Str(r.out.err),
                                           ![cur].completed_at = utcnow]
                 /\ IF stops_on_error(debug)
                    THEN pc' = "status" /\ cur' = cur
                    ELSE pc' = "loop" /\ cur' = cur + 1
    /\ UNCHANGED << inputVars, policyVars, max_episodes, episodes, context,
                    parsed, status, callVars >>

\* the loop is over (or was not entered): the overall status is determined
Finish ==
    /\ \/ pc = "status"
       \/ pc = "loop" /\ cur > Len(steps)
    /\ status' = overall_status(execute, steps)
    /\ pc' = "done"
    /\ UNCHANGED << inputVars, policyVars, memVars, parsed, steps, cur, calls,
                    callVars >>

Next == ParseIntent \/ StartStep \/ ExecuteStep \/ Finish

Spec == Init /\ [][Next]_vars

\* ------------------------------------------- PolicyEngine, called directly
\* the steps validate_plan is called with
PolicyStepPool ==
    { MkStep("create_model", [name |-> Str("Trade")]),
      MkStep("create_model", [name |-> Str("trade")]),
      MkStep("dangerous_action", EmptyDict),
      MkStep("compile", EmptyDict),
      MkStep("publish", EmptyDict),
      MkStep("publish", [notes |-> Str("ask a@b.co")]),
      Dict([action |-> "create_model", params |-> Str("Trade")]),
      MkStep("open_review", [title |-> Str("mail a@b.co")]) }

\* the actions a configuration may prohibit
ProhibitedPool == {"dangerous_action", "compile", "create_model"}

PolicyInit ==
    /\ prompt = "" /\ execute = FALSE /\ debug = FALSE
    /\ llmMode = "none" /\ llmItems = << >>
    /\ policies = _load_default_policies
    /\ max_episodes = DefaultMaxEpisodes
    /\ episodes = << >> /\ actions = << >> /\ context = EmptyDict
    /\ pc = "policy"
    /\ parsed = NoneVal /\ steps = << >> /\ cur = 0 /\ status = "none"
    /\ calls = << >>
    /\ callArgs \in {List(q) : q \in SeqsUpTo(PolicyStepPool, MaxSteps) \cup {<< >>}}
    /\ callRet = NoneVal

\* PolicyEngine.update_policy("prohibited_actions", value)
UpdatePolicy ==
    /\ pc = "policy"
    /\ \E value \in SUBSET ProhibitedPool :
          /\ value # policies.prohibited_actions
          /\ policies' = [policies EXCEPT !.prohibited_actions = value]
    /\ UNCHANGED << inputVars, memVars, runVars, callVars >>

\* PolicyEngine.validate_plan(steps): the kept dicts are annotated in place;
\* calls keeps the argument as it was when the call was made
ValidatePlan ==
    /\ pc = "policy"
    /\ callRet' = validate_plan(policies, callArgs)
    /\ callArgs' = List([i \in 1..Len(callArgs.v) |->
                           IF callArgs.v[i].v.action \in policies.prohibited_actions
                           THEN callArgs.v[i]
                           ELSE Dict(annotated(policies, callArgs.v[i].v))])
    /\ calls' = << [step |-> 0, call |-> "validate_plan", out |-> callArgs] >>
    /\ pc' = "validated"
    /\ UNCHANGED << inputVars, policyVars, memVars, parsed, steps, cur, status >>

PolicyNext == UpdatePolicy \/ ValidatePlan

PolicySpec == PolicyInit /\ [][PolicyNext]_vars

\* ------------------------------------------- check_action, called directly
\* a string of n copies of c, a list of n copies of x
RECURSIVE Rep(_, _)
Rep(c, n) == IF n = 0 THEN ""
             ELSE IF n % 2 = 0 THEN LET half == Rep(c, n \div 2) IN half \o half
             ELSE c \o Rep(c, n - 1)
Copies(x, n) == [i \in 1..n |-> x]

Num(n) == [t |-> "int", v |-> n]

\* lengths around the configured limits
TitleLengths == {0, 2, 3, 199, 200, 201}
EntityCounts == {0, 2, 3, 99, 100, 101}
TitleLimits == {200, 2}
EntityLimits == {100, 2}

\* parameters with and without PII, at several depths
ParamsPool ==
    { Dict(EmptyDict),
      Dict([name |-> Str("Clean")]),
      Dict([name |-> Str("clean")]),
      Dict([email |-> Str("a@b.com")]),
      Dict([name |-> Str("clean"), owner |-> Str("mail a@b.com now")]),
      Dict([user |-> Dict([contacts |-> List(<< Str("x"),
                                                 Dict([ssn |-> Str("123-45-6789")]) >>)])]),
      Dict([tags |-> List(<< Str("ok"), List(<< Str("555.123.4567") >>) >>)]),
      Dict([tags |-> List(<< Str("ok"), Str("fine") >>)]),
      Dict([card |-> Str("1234 5678 9012 3456")]),
      Dict([phone |-> Num(1234567890)]),
      Dict([digits |-> Str("12345678901")]),
      Dict([title |-> Str("call 555-123-4567"), entities |-> List(<< >>)]) }

CheckArgs ==
    {[action |-> a, params |-> p] :
        a \in {"compile", "create_model", "publish", "open_review", "upsert_entities"},
        p \in ParamsPool}
    \cup {[action |-> "open_review", params |-> Dict([title |-> Str(Rep("x", n))])] :
             n \in TitleLengths}
    \cup {[action |-> "upsert_entities",
           params |-> Dict([entities |-> List(Copies(Dict(EmptyDict), n))])] :
             n \in EntityCounts}

CheckInit ==
    /\ prompt = "" /\ execute = FALSE /\ debug = FALSE
    /\ llmMode = "none" /\ llmItems = << >>
    /\ policies = _load_default_policies
    /\ max_episodes = DefaultMaxEpisodes
    /\ episodes = << >> /\ actions = << >> /\ context = EmptyDict
    /\ pc = "check"
    /\ parsed = NoneVal /\ steps = << >> /\ cur = 0 /\ status = "none"
    /\ calls = << >>
    /\ callArgs \in CheckArgs
    /\ callRet = NoneVal

\* PolicyEngine.update_policy(key, value) for the two scalar limits
UpdateLimit ==
    /\ pc = "check"
    /\ \/ \E value \in TitleLimits :
             /\ value # policies.max_review_title_length
             /\ policies' = [policies EXCEPT !.max_review_title_length = value]
       \/ \E value \in EntityLimits :
             /\ value # policies.max_entities_per_request
             /\ policies' = [policies EXCEPT !.max_entities_per_request = value]
    /\ UNCHANGED << inputVars, memVars, runVars, callVars >>

\* PolicyEngine.check_action(action, params)
CheckAction ==
    /\ pc = "check"
    /\ callRet' = check_action(policies, callArgs.action, callArgs.params)
    /\ pc' = "checked"
    /\ UNCHANGED << inputVars, policyVars, memVars, parsed, steps, cur, status,
                    calls, callArgs >>

CheckNext == UpdateLimit \/ CheckAction

CheckSpec == CheckInit /\ [][CheckNext]_vars

\* --------------------------------------------- redact_pii, called directly
\* pieces of text: with PII of each kind, without, and the sentinel itself
Fragments ==
    {"a@b.co ", "a@b.cc|", "123-45-6789", "1234 5678 9012 3456", "555-123-4567",
     "5551234567", "x", "1", "[REDACTED]", ".", " "}

RECURSIVE Concat(_)
Concat(q) == IF Len(q) = 0 THEN "" ELSE q[1] \o Concat(Tail(q))

Texts == {Concat(q) : q \in SeqsUpTo(Fragments, MaxFrags) \cup {<< >>}}

RedactInit ==
    /\ prompt = "" /\ execute = FALSE /\ debug = FALSE
    /\ llmMode = "none" /\ llmItems = << >>
    /\ policies = _load_default_policies
    /\ max_episodes = DefaultMaxEpisodes
    /\ episodes = << >> /\ actions = << >> /\ context = EmptyDict
    /\ pc = "redact"
    /\ parsed = NoneVal /\ steps = << >> /\ cur = 0 /\ status = "none"
    /\ calls = << >>
    /\ callArgs \in {Str(t) : t \in Texts}
    /\ callRet = NoneVal

\* PolicyEngine.redact_pii(text)
RedactPii ==
    /\ pc = "redact"
    /\ callRet' = Str(redact_pii(policies, callArgs.v))
    /\ pc' = "redacted"
    /\ UNCHANGED << inputVars, policyVars, memVars, parsed, steps, cur, status,
                    calls, callArgs >>

\* PolicyEngine.redact_pii applied to what the first call returned
RedactAgain ==
    /\ pc = "redacted"
    /\ callArgs' = callRet
    /\ callRet' = Str(redact_pii(policies, callRet.v))
    /\ pc' = "redacted twice"
    /\ UNCHANGED << inputVars, policyVars, memVars, parsed, steps, cur, status, calls >>

RedactNext == RedactPii \/ RedactAgain

RedactSpec == RedactInit /\ [][RedactNext]_vars

\* ------------------------------------------- MemoryStore, called directly
EpisodePrompts == {"Create model", "Deploy model"}
QueryPrompts == {"create model", "MODEL x", "create", ""}
Counts == {0, 1, 3}
Limits == {1, 2}

\* documents given to import_history besides an exported one
ImportDocs ==
    { [episodes |-> << [id |-> 9, prompt |-> "Imported intent"] >>],
      [actions |-> << >>, context |-> [imported_key |-> "imported_value"],
       exported_at |-> isoformat_now],
      [exported_at |-> isoformat_now, version |-> "2"] }

\* the store as the methods see it
Store == [episodes |-> episodes, actions |-> actions, context |-> context,
          max_episodes |-> max_episodes]

\* MemoryStore(max_episodes); calls logs the arguments of add_episode and of
\* add_action in call order, and the store as it was when it was exported
MemoryInit ==
    /\ prompt = "" /\ execute = FALSE /\ debug = FALSE
    /\ llmMode = "none" /\ llmItems = << >>
    /\ policies = _load_default_policies
    /\ max_episodes \in 0..MaxCap
    /\ episodes = << >> /\ actions = << >> /\ context = EmptyDict
    /\ pc = "memory"
    /\ parsed = NoneVal /\ steps = << >> /\ cur = 0 /\ status = "none"
    /\ calls = [add_episode |-> << >>, add_action |-> << >>, exported |-> NoneVal]
    /\ callArgs = NoneVal
    /\ callRet = NoneVal

AddEpisode ==
    /\ pc = "memory"
    /\ Len(calls.add_episode) < max_episodes + MaxOver
    /\ \E p \in EpisodePrompts :
          LET episode == [id |-> Len(calls.add_episode) + 1, prompt |-> p] IN
          /\ episodes' = add_episode(episodes, max_episodes, episode)
          /\ calls' = [calls EXCEPT !.add_episode = Append(@, episode)]
    /\ UNCHANGED << inputVars, policyVars, max_episodes, actions, context,
                    pc, parsed, steps, cur, status, callVars >>

AddAction ==
    /\ pc = "memory"
    /\ Len(calls.add_action) < max_episodes * 10 + MaxOver
    /\ LET action == [id |-> Len(calls.add_action) + 1, action |-> "compile"] IN
          /\ actions' = add_action(actions, max_episodes, action)
          /\ calls' = [calls EXCEPT !.add_action = Append(@, action)]
    /\ UNCHANGED << inputVars, policyVars, max_episodes, episodes, context,
                    pc, parsed, steps, cur, status, callVars >>

SetContext ==
    /\ pc = "memory"
    /\ context' = set_context(context, "project", "proj1")
    /\ context' # context
    /\ UNCHANGED << inputVars, policyVars, max_episodes, episodes, actions,
                    runVars, callVars >>

ClearContext ==
    /\ pc \in {"memory", "imported"}
    /\ context' = clear_context(context)
    /\ context' # context
    /\ UNCHANGED << inputVars, policyVars, max_episodes, episodes, actions,
                    runVars, callVars >>

GetRecentEpisodes ==
    /\ pc = "memory"
    /\ \E count \in Counts :
          /\ callArgs' = [method |-> "get_recent_episodes", count |-> count]
          /\ callRet' = get_recent(episodes, count)
    /\ pc' = "returned"
    /\ UNCHANGED << inputVars, policyVars, memVars, parsed, steps, cur, status, calls >>

GetRecentActions ==
    /\ pc = "memory"
    /\ \E count \in Counts :
          /\ callArgs' = [method |-> "get_recent_actions", count |-> count]
          /\ callRet' = get_recent(actions, count)
    /\ pc' = "returned"
    /\ UNCHANGED << inputVars, policyVars, memVars, parsed, steps, cur, status, calls >>

FindSimilarEpisodes ==
    /\ pc = "memory"
    /\ \E q \in QueryPrompts, limit \in Limits :
          /\ callArgs' = [method |-> "find_similar_episodes", prompt |-> q,
                          limit |-> limit]
          /\ callRet' = find_similar_episodes(episodes, q, limit)
    /\ pc' = "returned"
    /\ UNCHANGED << inputVars, policyVars, memVars, parsed, steps, cur, status, calls >>

ExportHistory ==
    /\ pc = "memory"
    /\ callArgs' = [method |-> "export_history"]
    /\ callRet' = export_history(Store)
    /\ calls' = [calls EXCEPT !.exported = << episodes, actions, context >>]
    /\ pc' = "exported"
    /\ UNCHANGED << inputVars, policyVars, memVars, parsed, steps, cur, status >>

\* a fresh store is made for the exported document: MemoryStore()
NewStore ==
    /\ pc = "exported"
    /\ max_episodes' = DefaultMaxEpisodes
    /\ episodes' = << >> /\ actions' = << >> /\ context' = EmptyDict
    /\ pc' = "fresh"
    /\ UNCHANGED << inputVars, policyVars, parsed, steps, cur, status, calls, callVars >>

\* import_history(data): into the fresh store the exported document, into a
\* store in use a document that lacks some of the keys
ImportHistory ==
    /\ \/ pc = "fresh" /\ callArgs' = callRet /\ pc' = "restored"
       \/ pc = "memory" /\ callArgs' \in ImportDocs /\ pc' = "imported"
    /\ LET after == import_history(Store, callArgs') IN
          /\ episodes' = after.episodes
          /\ actions' = after.actions
          /\ context' = after.context
    /\ callRet' = NoneVal
    /\ UNCHANGED << inputVars, policyVars, max_episodes, parsed, steps, cur,
                    status, calls >>

MemoryNext ==
    \/ AddEpisode \/ AddAction \/ SetContext \/ ClearContext
    \/ GetRecentEpisodes \/ GetRecentActions \/ FindSimilarEpisodes
    \/ ExportHistory \/ NewStore \/ ImportHistory

MemorySpec == MemoryInit /\ [][MemoryNext]_vars

\* --------------------------------- one adapter request (_request with @retry)
\* what one attempt of the HTTP request gives: a response with that status,
\* or a transport exception of httpx
AttemptOutcomes == {"200", "400", "404", "500", "timeout", "connect error"}
TransportFailures == {"timeout", "connect error"}
Clients == {"sdlc", "engine", "depot"}

\* @retry(stop = stop_after_attempt(3), ...)
stop_after_attempt == 3

\* the body of _request raises: a transport exception of httpx, or
\* Exception("... API error") for a response with status >= 400
attempt_raises(outcome) == outcome # "200"

\* the retry predicate of @retry: none is given, so every exception raised by
\* the body is retried
retry_if(outcome) == attempt_raises(outcome)

\* cur is the attempt number, calls the outcome of each attempt so far
RequestInit ==
    /\ prompt = "" /\ execute = FALSE /\ debug = FALSE
    /\ llmMode = "none" /\ llmItems = << >>
    /\ policies = _load_default_policies
    /\ max_episodes = DefaultMaxEpisodes
    /\ episodes = << >> /\ actions = << >> /\ context = EmptyDict
    /\ pc = "attempt"
    /\ parsed = NoneVal /\ steps = << >> /\ status = "none"
    /\ cur = 1
    /\ calls = << >>
    /\ callArgs \in {[client |-> c, method |-> "POST"] : c \in Clients}
    /\ callRet = NoneVal

\* an attempt that returns the response
AttemptReturns ==
    /\ pc = "attempt"
    /\ calls' = Append(calls, [step |-> cur, call |-> "http", out |-> "200"])
    /\ callRet' = Ok([id |-> "1"])
    /\ pc' = "returned"
    /\ UNCHANGED << inputVars, policyVars, memVars, parsed, steps, cur, status, callArgs >>

\* an attempt that raises and is followed by another one
AttemptRetried ==
    /\ pc = "attempt"
    /\ \E o \in AttemptOutcomes :
          /\ attempt_raises(o)
          /\ retry_if(o) /\ cur < stop_after_attempt
          /\ calls' = Append(calls, [step |-> cur, call |-> "http", out |-> o])
    /\ cur' = cur + 1
    /\ UNCHANGED << inputVars, policyVars, memVars, pc, parsed, steps, status, callVars >>

\* an attempt that raises and is the last one: the failure is surfaced
AttemptSurfaced ==
    /\ pc = "attempt"
    /\ \E o \in AttemptOutcomes :
          /\ attempt_raises(o)
          /\ ~(retry_if(o) /\ cur < stop_after_attempt)
          /\ calls' = Append(calls, [step |-> cur, call |-> "http", out |-> o])
          /\ callRet' = Raise(callArgs.client \o " request failed: " \o o)
    /\ pc' = "raised"
    /\ UNCHANGED << inputVars, policyVars, memVars, parsed, steps, cur, status, callArgs >>

RequestNext == AttemptReturns \/ AttemptRetried \/ AttemptSurfaced

RequestSpec == RequestInit /\ [][RequestNext]_vars

\* ------------------- MemoryStore, one store written by several request workers
\* The statements of add_episode and add_action are the steps of a worker: the
\* store has no lock, so between two statements of one worker any other worker
\* may run.  pc[w] is the statement the worker is at, callArgs[w] the list it
\* is adding to, callRet[w] the slice it has computed and not yet stored, and
\* cur[w] the number of calls it has begun.  calls logs the appended entries
\* of each list in the order of the appends.
Workers == {"w1", "w2"}
Lists == {"episodes", "actions"}

\* len(self.episodes) > self.max_episodes, len(self.actions) > self.max_episodes * 10
capacity(list) == IF list = "episodes" THEN max_episodes ELSE max_episodes * 10

SharedInit ==
    /\ prompt = "" /\ execute = FALSE /\ debug = FALSE
    /\ llmMode = "none" /\ llmItems = << >>
    /\ policies = _load_default_policies
    /\ max_episodes \in 0..MaxCap
    /\ episodes = << >> /\ actions = << >> /\ context = EmptyDict
    /\ pc = [w \in Workers |-> "idle"]
    /\ parsed = NoneVal /\ steps = << >> /\ status = "none"
    /\ cur = [w \in Workers |-> 0]
    /\ calls = [episodes |-> << >>, actions |-> << >>]
    /\ callArgs = [w \in Workers |-> "episodes"]
    /\ callRet = [w \in Workers |-> << >>]

\* item["timestamp"] = ...; self.<list>.append(item)
WorkerAppend(w) ==
    /\ pc[w] = "idle"
    /\ cur[w] < MaxAdds
    /\ \E list \in Lists :
          LET item == Stamped([id |-> cur[w] + 1, worker |-> w]) IN
          /\ episodes' = IF list = "episodes" THEN Append(episodes, item) ELSE episodes
          /\ actions' = IF list = "actions" THEN Append(actions, item) ELSE actions
          /\ calls' = [calls EXCEPT ![list] = Append(@, item)]
          /\ callArgs' = [callArgs EXCEPT ![w] = list]
    /\ cur' = [cur EXCEPT ![w] = @ + 1]
    /\ pc' = [pc EXCEPT ![w] = "check"]
    /\ UNCHANGED << inputVars, policyVars, max_episodes, context, parsed, steps,
                    status, callRet >>

\* if len(self.<list>) > capacity:
WorkerCheck(w) ==
    /\ pc[w] = "check"
    /\ LET list == IF callArgs[w] = "episodes" THEN episodes ELSE actions IN
          pc' = [pc EXCEPT ![w] = IF Len(list) > capacity(callArgs[w])
                                  THEN "slice" ELSE "idle"]
    /\ UNCHANGED << inputVars, policyVars, memVars, parsed, steps, cur, status,
                    calls, callVars >>

\* the right-hand side self.<list>[-capacity:]
WorkerSlice(w) ==
    /\ pc[w] = "slice"
    /\ LET list == IF callArgs[w] = "episodes" THEN episodes ELSE actions IN
          callRet' = [callRet EXCEPT ![w] = SliceFrom(list, -capacity(callArgs[w]))]
    /\ pc' = [pc EXCEPT ![w] = "assign"]
    /\ UNCHANGED << inputVars, policyVars, memVars, parsed, steps, cur, status,
                    calls, callArgs >>

\* the assignment self.<list> = ...
WorkerAssign(w) ==
    /\ pc[w] = "assign"
    /\ episodes' = IF callArgs[w] = "episodes" THEN callRet[w] ELSE episodes
    /\ actions' = IF callArgs[w] = "actions" THEN callRet[w] ELSE actions
    /\ callRet' = [callRet EXCEPT ![w] = << >>]
    /\ pc' = [pc EXCEPT ![w] = "idle"]
    /\ UNCHANGED << inputVars, policyVars, max_episodes, context, parsed, steps,
                    cur, status, calls, callArgs >>

SharedNext ==
    \E w \in Workers :
       \/ WorkerAppend(w)
       \/ WorkerCheck(w)
       \/ WorkerSlice(w)
       \/ WorkerAssign(w)

SharedSpec == SharedInit /\ [][SharedNext]_vars

\* ------------------------------------------------- the use-case flow endpoints
\* a step of a flow: the pair (action, params) given to execute_step
FlowStep(action, params) == [action |-> action, params |-> Dict(params)]

flow_ingest_publish(request) ==
    << FlowStep("create_workspace", [project_id |-> Str("proj1"), workspace_id |-> Str("ws1")]),
       FlowStep("create_model", [name |-> Str(request.model_name), csv_data |-> Str("id,qty")]),
       FlowStep("create_mapping", [name |-> Str("FlatDataMapping"), model |-> Str(request.model_name)]),
       FlowStep("compile", EmptyDict),
       FlowStep("generate_service", [path |-> Str("trades/byId")]),
       FlowStep("open_review", [title |-> Str("Add " \o request.model_name \o " service")]) >>

flow_safe_rollout(request) ==
    << FlowStep("create_workspace", [project_id |-> Str("proj1"), workspace_id |-> Str("ws1-v2")]),
       FlowStep("apply_changes", [model_path |-> Str("model::Trade"), changes |-> Dict(EmptyDict)]),
       FlowStep("compile", EmptyDict),
       FlowStep("run_tests", EmptyDict),
       FlowStep("create_v2_service", [keep_v1 |-> [t |-> "bool", v |-> request.keep_v1]]),
       FlowStep("open_review", [title |-> Str("Safe rollout: model::Trade changes")]) >>

flow_model_reuse(request) ==
    << FlowStep("search_depot", [query |-> Str("trade")]),
       FlowStep("import_model", [format |-> Str(request.target_format)]),
       FlowStep("transform_schema", [format |-> Str(request.target_format)]),
       FlowStep("create_service", [name |-> Str("TradeService")]) >>

flow_reverse_etl(request) ==
    << FlowStep("analyze_table", [table |-> Str("public.trades")]),
       FlowStep("generate_model", [name |-> Str(request.model_name)]),
       FlowStep("add_constraints", [constraints |-> List(<< Str("quantity > 0") >>)]),
       FlowStep("compile", EmptyDict),
       FlowStep("create_data_product", EmptyDict),
       FlowStep("export_schema", [format |-> Str("jsonSchema")]) >>

flow_governance_audit(request) ==
    << FlowStep("enumerate_entities", [scope |-> Str("all")]),
       FlowStep("compile_all", EmptyDict) >>
    \o (IF request.include_tests
        THEN << FlowStep("run_constraint_tests", EmptyDict) >> ELSE << >>)
    \o (IF request.generate_evidence
        THEN << FlowStep("generate_evidence_bundle", EmptyDict) >> ELSE << >>)

flow_contract_first(request) ==
    << FlowStep("schema_to_model", [schema |-> Dict(EmptyDict)]),
       FlowStep("compile", EmptyDict) >>
    \o (IF request.generate_tests
        THEN << FlowStep("generate_positive_tests", EmptyDict),
                FlowStep("generate_negative_tests", EmptyDict) >>
        ELSE << >>)
    \o << FlowStep("publish_service", [path |-> Str("trades/byId")]),
          FlowStep("attach_schema_bundle", EmptyDict) >>

flow_bulk_backfill(request) ==
    << FlowStep("plan_ingestion", [source |-> Str("s3://trades"), window_size |-> Num(1000)]) >>
    \o (IF request.validate_sample
        THEN << FlowStep("validate_sample", [size |-> Num(100)]) >> ELSE << >>)
    \o << FlowStep("execute_backfill", [target |-> Str("model::Trade")]),
          FlowStep("record_manifest", EmptyDict) >>

flow_incident_rollback(request) ==
    << FlowStep("list_versions", [service |-> Str("trades/byId")]) >>
    \o (IF request.target_version = NoneVal
        THEN << FlowStep("find_last_good_version", EmptyDict) >> ELSE << >>)
    \o (IF request.create_hotfix
        THEN << FlowStep("create_hotfix_workspace", EmptyDict) >> ELSE << >>)
    \o << FlowStep("revert_to_version", [version |-> request.target_version]),
          FlowStep("compile", EmptyDict),
          FlowStep("flip_traffic", EmptyDict) >>

\* the requests of the eight endpoints
FlowRequests ==
    {[use_case |-> 1, model_name |-> "Trade"]}
    \cup {[use_case |-> 2, keep_v1 |-> k] : k \in BOOLEAN}
    \cup {[use_case |-> 3, target_format |-> f] : f \in {"avro", "protobuf"}}
    \cup {[use_case |-> 4, model_name |-> "TradeModel"]}
    \cup {[use_case |-> 5, include_tests |-> t, generate_evidence |-> e] :
             t \in BOOLEAN, e \in BOOLEAN}
    \cup {[use_case |-> 6, generate_tests |-> t] : t \in BOOLEAN}
    \cup {[use_case |-> 7, validate_sample |-> v] : v \in BOOLEAN}
    \cup {[use_case |-> 8, target_version |-> v, create_hotfix |-> h] :
             v \in {NoneVal, Str("1.0.0")}, h \in BOOLEAN}

flow_steps(request) ==
    CASE request.use_case = 1 -> flow_ingest_publish(request)
      [] request.use_case = 2 -> flow_safe_rollout(request)
      [] request.use_case = 3 -> flow_model_reuse(request)
      [] request.use_case = 4 -> flow_reverse_etl(request)
      [] request.use_case = 5 -> flow_governance_audit(request)
      [] request.use_case = 6 -> flow_contract_first(request)
      [] request.use_case = 7 -> flow_bulk_backfill(request)
      [] request.use_case = 8 -> flow_incident_rollback(request)

\* a request arrives: a new orchestrator (default policies, empty memory) and
\* the step list; callArgs is the request, callRet the results so far
FlowInit ==
    /\ prompt = "" /\ execute = TRUE /\ debug = FALSE
    /\ llmMode = "none" /\ llmItems = << >>
    /\ policies = _load_default_policies
    /\ max_episodes = DefaultMaxEpisodes
    /\ episodes = << >> /\ actions = << >> /\ context = EmptyDict
    /\ callArgs \in FlowRequests
    /\ steps = flow_steps(callArgs)
    /\ pc = "flow"
    /\ parsed = NoneVal /\ cur = 1 /\ status = "none"
    /\ calls = << >>
    /\ callRet = << >>

\* one iteration of `for action, params in steps`; an exception of
\* execute_step ends the flow with HTTP 500, whose detail is kept in status
FlowExecuteStep ==
    /\ pc = "flow" /\ cur <= Len(steps)
    /\ \E o \in AdapterChoices(steps[cur].action) :
         LET self == [policies |-> policies, actions |-> actions,
                      max_episodes |-> max_episodes]
             r == execute_step(self, steps[cur].action, steps[cur].params, o)
         IN
         /\ calls' = calls \o [i \in 1..Len(r.trace) |->
                                 [step |-> cur, call |-> r.trace[i].call,
                                  out |-> r.trace[i].out]]
         /\ actions' = r.actions
         /\ IF r.out.ok
            THEN /\ callRet' = Append(callRet, [action |-> steps[cur].action,
                                                result |-> r.out.val])
                 /\ cur' = cur + 1
                 /\ UNCHANGED << pc, status >>
            ELSE IF r.out.base
            THEN /\ pc' = "cancelled"
                 /\ UNCHANGED << callRet, cur, status >>
            ELSE /\ pc' = "error"
                 /\ status' = r.out.err
                 /\ UNCHANGED << callRet, cur >>
    /\ UNCHANGED << inputVars, policyVars, max_episodes, episodes, context,
                    parsed, steps, callArgs >>

\* the loop is over: the response with "status": "completed"
FlowReturn ==
    /\ pc = "flow" /\ cur > Len(steps)
    /\ status' = "completed"
    /\ pc' = "done"
    /\ UNCHANGED << inputVars, policyVars, memVars, parsed, steps, cur, calls,
                    callVars >>

FlowNext == FlowExecuteStep \/ FlowReturn

FlowSpec == FlowInit /\ [][FlowNext]_vars

\* ============================================================== properties
\* the calls made while step i was executed
CallsOf(i) == SelectSeq(calls, LAMBDA c : c.step = i)
HasCall(i, name) == \E k \in 1..Len(calls) : calls[k].step = i /\ calls[k].call = name
CountCalls(i, name) ==
    Cardinality({k \in 1..Len(calls) : calls[k].step = i /\ calls[k].call = name})
StepIds == 1..Len(steps)
Terminal(i) == steps[i].status \in {"completed", "failed"}
AdapterCalls == {"sdlc.create_workspace", "sdlc.upsert_entities", "sdlc.get_entities",
                 "sdlc.create_review", "engine.compile", "depot.publish"}

\* C1: outside debug mode no step after a FAILED step is started (it stays
\* PENDING and nothing is called for it); in debug mode a finished run has
\* started every step.
C1_FailFast ==
    /\ ~debug =>
         \A i \in StepIds : steps[i].status = "failed" =>
            \A j \in StepIds : j > i =>
               /\ steps[j].status = "pending"
               /\ steps[j].started_at = NoneVal
               /\ CallsOf(j) = << >>
    /\ (debug /\ execute /\ pc = "done") =>
         \A i \in StepIds : steps[i].started_at # NoneVal /\ Terminal(i)

C1_Witness ==
    /\ ~debug /\ pc = "done" /\ Len(steps) >= 2
    /\ steps[1].status = "failed" /\ steps[2].status = "pending"

C3_CompileErrorFailsPlan ==
    ( /\ pc = "done" /\ execute /\ Len(steps) = 2
      /\ steps[1].action = "create_model"
      /\ steps[1].params = Dict([name |-> Str("Trade")])
      /\ steps[2].action = "compile"
      /\ steps[2].params = Dict(EmptyDict)
      /\ \E k \in 1..Len(calls) : /\ calls[k].step = 2
                                  /\ calls[k].call = "engine.compile"
                                  /\ calls[k].out = "error" )
    => (status = "failed" /\ steps[2].status = "failed")

\* C4: the overall status is "planned" exactly when execution was not
\* requested; when it was requested it is "failed" if some step is FAILED and
\* "completed" if all steps are COMPLETED, and the two never apply together.
C4_PlanStatus ==
    pc = "done" =>
       /\ (status = "planned") <=> ~execute
       /\ (execute /\ \E i \in StepIds : steps[i].status = "failed")
             => status = "failed"
       /\ (execute /\ \A i \in StepIds : steps[i].status = "completed")
             => status = "completed"
       /\ ~( (\E i \in StepIds : steps[i].status = "failed")
             /\ (\A i \in StepIds : steps[i].status = "completed") )

C4_Witness ==
    /\ pc = "done" /\ execute /\ status = "failed"
    /\ \E i, j \in StepIds : steps[i].status = "completed" /\ steps[j].status = "failed"

\* C5: a step whose action is not in the dispatch table fails with "Unknown
\* action" without any call (no check_action, no handler, no adapter), and
\* executing it leaves the memory store unchanged.
C5_UnknownAction ==
    /\ [](\A i \in StepIds :
            (steps[i].action \notin handlers /\ steps[i].status \notin {"pending", "running"})
            => /\ steps[i].status = "failed"
               /\ steps[i].error = Str("Unknown action: " \o steps[i].action)
               /\ CallsOf(i) = << >>)
    /\ [][(pc = "exec" /\ steps[cur].action \notin handlers)
             => /\ memVars' = memVars
                /\ calls' = calls
                /\ steps'[cur].status = "failed"]_vars

C5_Witness ==
    \E i \in StepIds : /\ steps[i].action \notin handlers
                       /\ steps[i].status = "failed"
                       /\ \E j \in StepIds : j < i /\ Len(actions) = 1

\* C6: check_action is called exactly once per step with a known action and
\* before the handler; when it reports a violation neither the handler nor
\* any adapter is called for that step.
C6_PolicyBeforeDispatch ==
    \A i \in StepIds :
       LET cs == CallsOf(i) IN
       /\ (steps[i].action \in handlers /\ steps[i].status # "pending"
              /\ ~(pc = "exec" /\ cur = i))
             => /\ CountCalls(i, "check_action") = 1
                /\ cs[1].call = "check_action"
       /\ HasCall(i, "handler") =>
             /\ CountCalls(i, "check_action") = 1
             /\ cs[1].call = "check_action" /\ cs[1].out = "ok"
       /\ (\E k \in 1..Len(cs) : cs[k].call = "check_action" /\ cs[k].out = "raise")
             => /\ Len(cs) = 1
                /\ steps[i].status = "failed"
       /\ ~check_action(policies, steps[i].action, steps[i].params).ok
             => \A k \in 1..Len(cs) : cs[k].call = "check_action"

C6_Witness ==
    \E i \in StepIds :
       /\ steps[i].action = "create_model"
       /\ steps[i].status = "failed"
       /\ CallsOf(i) = << [step |-> i, call |-> "check_action", out |-> "raise"] >>

\* C7 as stated: a step during which the handler or an adapter call failed
\* ends FAILED with the error message attached, never COMPLETED.
C7_FailureIsFailedStep ==
    \A i \in StepIds :
       (/\ Terminal(i)
        /\ \E k \in 1..Len(calls) :
              /\ calls[k].step = i
              /\ calls[k].call \in AdapterCalls \cup {"handler"}
              /\ calls[k].out = "raise")
       => (steps[i].status = "failed" /\ steps[i].error # NoneVal)

\* C8: whatever the NL-model collaborator does, parse_intent returns a list
\* of steps and does not raise.
C8_ParseNeverRaises ==
    pc # "request" =>
       /\ parsed.ok
       /\ DOMAIN parsed.val = 1..Len(parsed.val)
       /\ \A i \in 1..Len(parsed.val) : parsed.val[i].t = "dict"

C8_Witness ==
    /\ pc # "request" /\ llmMode \in {"raise", "nodict"} /\ prompt = "hello world"
    /\ parsed = Ok(<< >>)

\* C9 as stated: with the LLM client of the repository, the prompt "create a
\* trade model then compile" is parsed to [create_model{name: Trade}, compile{}].
C9_TradeScenario ==
    (pc # "request" /\ prompt = "create a trade model then compile" /\ llmMode = "stub")
    => parsed = Ok(<< MkStep("create_model", [name |-> Str("Trade")]),
                      MkStep("compile", EmptyDict) >>)

\* C10: validate_plan on a list with k steps whose action is prohibited
\* returns a list of len(input) - k steps, none of them prohibited.
Prohibited(items) ==
    {i \in 1..Len(items) : items[i].v.action \in policies.prohibited_actions}

C10_ProhibitedRemoved ==
    pc = "validated" =>
       /\ callRet.ok
       /\ Len(callRet.val) = Len(callArgs.v) - Cardinality(Prohibited(callArgs.v))
       /\ \A j \in 1..Len(callRet.val) :
             callRet.val[j].v.action \notin policies.prohibited_actions

C10_Witness ==
    /\ pc = "validated"
    /\ Cardinality(Prohibited(callArgs.v)) >= 1
    /\ Len(callRet.val) = 2
    /\ \E j \in 1..Len(callRet.val) : "validation_error" \in DOMAIN callRet.val[j].v

\* the plan validate_plan was called with, the positions of its steps that
\* are not prohibited (in order), and what check_action says about a step
PlanIn == calls[1].out.v
KeptIdx == SelectSeq([i \in 1..Len(PlanIn) |-> i],
                     LAMBDA i : PlanIn[i].v.action \notin policies.prohibited_actions)
StepCheck(step) ==
    check_action(policies, Get(step, "action", NoneAction),
                 Get(step, "params", Dict(EmptyDict)))

\* C11: validate_plan does not raise; the returned plan holds the steps that
\* are not prohibited, in input order, each with its fields untouched; a step
\* gets a validation_error carrying the message exactly when check_action
\* reports a violation for it.
C11_NonDestructive ==
    pc = "validated" =>
       /\ callRet.ok
       /\ Len(callRet.val) = Len(KeptIdx)
       /\ \A j \in 1..Len(KeptIdx) :
             LET in == PlanIn[KeptIdx[j]].v
                 out == callRet.val[j].v
                 chk == StepCheck(in)
             IN /\ \A key \in DOMAIN in : key \in DOMAIN out /\ out[key] = in[key]
                /\ DOMAIN out \subseteq DOMAIN in \cup {"requires_approval", "validation_error"}
                /\ chk.ok => "validation_error" \notin DOMAIN out
                /\ ~chk.ok => /\ "validation_error" \in DOMAIN out
                              /\ out["validation_error"] = chk.err

C11_Witness ==
    /\ pc = "validated" /\ Len(PlanIn) = 3 /\ Len(callRet.val) = 3
    /\ callRet.val[1].v = [action |-> "create_model", params |-> Dict([name |-> Str("trade")]),
                           validation_error |-> "Model name 'trade' violates naming policy"]
    /\ callRet.val[2] = MkStep("compile", EmptyDict)
    /\ "validation_error" \in DOMAIN callRet.val[3].v
    /\ callRet.val[3].v.params = Str("Trade")

\* C12 as stated: a kept step whose action is in the approval set has
\* requires_approval and never a validation_error (it is not checked); a step
\* outside the approval set never has requires_approval.
C12_Alternatives ==
    pc = "validated" =>
       \A j \in 1..Len(callRet.val) :
          LET out == callRet.val[j].v IN
          IF out.action \in policies.require_approval
          THEN /\ "requires_approval" \in DOMAIN out /\ out["requires_approval"] = TRUE
               /\ "validation_error" \notin DOMAIN out
          ELSE "requires_approval" \notin DOMAIN out

\* C12 amended: a kept step has requires_approval = true exactly when its
\* action is in the approval set, and every kept step, in the approval set or
\* not, is passed to check_action: it has a validation_error exactly when
\* check_action reports a violation.
C12_FlagThenCheck ==
    pc = "validated" =>
       \A j \in 1..Len(KeptIdx) :
          LET in == PlanIn[KeptIdx[j]].v
              out == callRet.val[j].v
          IN /\ IF in.action \in policies.require_approval
                THEN "requires_approval" \in DOMAIN out /\ out["requires_approval"] = TRUE
                ELSE "requires_approval" \notin DOMAIN out
             /\ ("validation_error" \in DOMAIN out) <=> ~StepCheck(in).ok

C12_Witness ==
    /\ pc = "validated"
    /\ \E j \in 1..Len(callRet.val) :
          /\ callRet.val[j].v.action = "publish"
          /\ DOMAIN callRet.val[j].v =
                {"action", "params", "requires_approval", "validation_error"}
          /\ callRet.val[j].v["requires_approval"] = TRUE
          /\ callRet.val[j].v["validation_error"] = "PII detected in parameters"
    /\ \E j \in 1..Len(callRet.val) :
          /\ callRet.val[j].v.action = "publish"
          /\ DOMAIN callRet.val[j].v = {"action", "params", "requires_approval"}

\* the string leaves of a value, through dicts and lists at any depth
RECURSIVE StrLeaves(_)
StrLeaves(value) ==
    IF value.t = "str" THEN {value.v}
    ELSE IF value.t = "dict"
    THEN UNION {StrLeaves(value.v[key]) : key \in DOMAIN value.v}
    ELSE IF value.t = "list"
    THEN UNION {StrLeaves(value.v[i]) : i \in 1..Len(value.v)}
    ELSE {}

HasPII(value) ==
    \E leaf \in StrLeaves(value) :
       \E i \in 1..Len(policies.pii_patterns) : re_search(policies.pii_patterns[i], leaf)

RuledActions == {"create_workspace", "create_model", "generate_service",
                 "open_review", "upsert_entities", "transform_schema"}

\* C13: check_action raises the PII violation exactly when some string leaf
\* of params, at any depth, matches a PII pattern, whatever the action and
\* whatever its own rule says; without such a leaf an action that has no rule
\* of its own passes.
C13_PiiScan ==
    pc = "checked" =>
       /\ (callRet = Raise("PII detected in parameters")) <=> HasPII(callArgs.params)
       /\ (~HasPII(callArgs.params) /\ callArgs.action \notin RuledActions) => callRet.ok

C13_Witness ==
    /\ pc = "checked"
    /\ callArgs.action = "create_model"
    /\ callArgs.params =
          Dict([user |-> Dict([contacts |-> List(<< Str("x"),
                                                   Dict([ssn |-> Str("123-45-6789")]) >>)])])
    /\ callRet = Raise("PII detected in parameters")

\* C14: for a PII-free open_review with a string title check_action raises
\* exactly when the title is longer than max_review_title_length, and for a
\* PII-free upsert_entities with a list of entities exactly when there are
\* more than max_entities_per_request of them; the defaults are 200 and 100.
C14_InclusiveLimits ==
    /\ _load_default_policies.max_review_title_length = 200
    /\ _load_default_policies.max_entities_per_request = 100
    /\ (pc = "checked" /\ ~HasPII(callArgs.params)) =>
          LET p == callArgs.params.v IN
          /\ (callArgs.action = "open_review" /\ "title" \in DOMAIN p /\ p.title.t = "str")
                => (~callRet.ok <=> Len(p.title.v) > policies.max_review_title_length)
          /\ (callArgs.action = "upsert_entities" /\ "entities" \in DOMAIN p
                 /\ p.entities.t = "list")
                => (~callRet.ok <=> Len(p.entities.v) > policies.max_entities_per_request)

C14_Witness ==
    /\ pc = "checked" /\ policies = _load_default_policies
    /\ callArgs.action = "open_review"
    /\ DOMAIN callArgs.params.v = {"title"}
    /\ Len(callArgs.params.v.title.v) = 201
    /\ callRet = Raise("Review title exceeds maximum length of 200")

MatchesPII(text) ==
    \E i \in 1..Len(policies.pii_patterns) : re_search(policies.pii_patterns[i], text)

\* C15: redacting the output of redact_pii again changes nothing; the output
\* of redact_pii has no match of a PII pattern, and neither has the sentinel.
C15_RedactIdempotent ==
    /\ pc = "redacted twice" => callRet = callArgs
    /\ pc \in {"redacted", "redacted twice"} => ~MatchesPII(callRet.v)
    /\ ~MatchesPII(Sentinel)

C15_Witness ==
    /\ pc = "redacted twice"
    /\ callArgs = Str("[REDACTED] [REDACTED]|")
    /\ callRet = callArgs

\* the last Min(n, Len(q)) entries of q, in order
LastN(q, n) == SubSeq(q, Len(q) - Min(n, Len(q)) + 1, Len(q))
\* the store was filled by add_episode / add_action only
OnlyAdds == pc \in {"memory", "returned", "exported"}

\* C16: with a capacity of at least 1, after any sequence of add_episode calls
\* the store holds the last min(number inserted, capacity) episodes inserted,
\* in insertion order (the oldest retained first); the same for add_action
\* with ten times the capacity.
C16_FifoEviction ==
    (OnlyAdds /\ max_episodes >= 1) =>
       /\ episodes = LastN([i \in 1..Len(calls.add_episode) |->
                              Stamped(calls.add_episode[i])], max_episodes)
       /\ actions = LastN([i \in 1..Len(calls.add_action) |->
                             Stamped(calls.add_action[i])], 10 * max_episodes)

C16_Witness ==
    /\ pc = "memory" /\ max_episodes = 1
    /\ Len(calls.add_episode) = 2 /\ Len(episodes) = 1 /\ episodes[1].id = 2
    /\ Len(calls.add_action) = 11 /\ Len(actions) = 10
    /\ actions[1].id = 2 /\ actions[10].id = 11

\* C17 as stated: get_recent_episodes(n) and get_recent_actions(n) return the
\* last min(n, size) entries in insertion order; for n = 0 the empty list.
C17_LastN ==
    /\ (pc = "returned" /\ callArgs.method = "get_recent_episodes")
          => callRet = LastN(episodes, callArgs.count)
    /\ (pc = "returned" /\ callArgs.method = "get_recent_actions")
          => callRet = LastN(actions, callArgs.count)

\* the number of query tokens an episode shares (the score times the number
\* of query tokens)
Overlap(query, episode) ==
    Cardinality(split(lower(query)) \cap split(lower(episode.prompt)))
Returned(episode) == \E j \in 1..Len(callRet) : callRet[j] = episode

\* C18: find_similar_episodes returns at most limit episodes of the store,
\* each once and each with a score above 0, in order of non-increasing score;
\* an episode of the store that is left out has score 0, or the limit is
\* reached and its score is not above that of any returned episode.
C18_SimilarByScore ==
    (pc = "returned" /\ callArgs.method = "find_similar_episodes") =>
       LET q == callArgs.prompt IN
       /\ Len(callRet) <= callArgs.limit
       /\ \A j \in 1..Len(callRet) :
             /\ \E i \in 1..Len(episodes) : episodes[i] = callRet[j]
             /\ Overlap(q, callRet[j]) > 0
             /\ \A k \in 1..Len(callRet) :
                   /\ j < k => Overlap(q, callRet[j]) >= Overlap(q, callRet[k])
                   /\ j # k => callRet[j] # callRet[k]
       /\ \A i \in 1..Len(episodes) :
             ~Returned(episodes[i]) =>
                \/ Overlap(q, episodes[i]) = 0
                \/ /\ Len(callRet) = callArgs.limit
                   /\ \A j \in 1..Len(callRet) :
                         Overlap(q, episodes[i]) <= Overlap(q, callRet[j])

C18_Witness ==
    /\ pc = "returned" /\ callArgs.method = "find_similar_episodes"
    /\ callArgs.prompt = "create model" /\ callArgs.limit = 1
    /\ Len(episodes) = 2
    /\ episodes[1].prompt = "Deploy model" /\ episodes[2].prompt = "Create model"
    /\ callRet = << episodes[2] >>

\* C19 as stated: among episodes with equal score the most recently inserted
\* comes first, and an episode left out is not more recent than a returned
\* one with the same score.
C19_TiesByRecency ==
    (pc = "returned" /\ callArgs.method = "find_similar_episodes") =>
       LET q == callArgs.prompt IN
       /\ \A j, k \in 1..Len(callRet) :
             (j < k /\ Overlap(q, callRet[j]) = Overlap(q, callRet[k]))
                => callRet[j].id > callRet[k].id
       /\ \A i \in 1..Len(episodes), j \in 1..Len(callRet) :
             (~Returned(episodes[i]) /\ Overlap(q, episodes[i]) = Overlap(q, callRet[j]))
                => episodes[i].id < callRet[j].id

\* C20: export_history holds the episodes, actions and context of the store;
\* importing the exported document into a fresh store gives a store with the
\* same episodes, actions and context as the exported one; import_history
\* replaces a field when the document has its key, leaves it unchanged when
\* it has not, and ignores every other key.
C20_RoundTrip ==
    /\ [](/\ pc = "exported" =>
              /\ callRet["episodes"] = episodes
              /\ callRet["actions"] = actions
              /\ callRet["context"] = context
              /\ "exported_at" \in DOMAIN callRet
          /\ pc = "restored" => << episodes, actions, context >> = calls.exported)
    /\ [][(pc \in {"memory", "fresh"} /\ pc' \in {"imported", "restored"}) =>
            /\ episodes' = IF "episodes" \in DOMAIN callArgs'
                            THEN callArgs'["episodes"] ELSE episodes
            /\ actions' = IF "actions" \in DOMAIN callArgs'
                           THEN callArgs'["actions"] ELSE actions
            /\ context' = IF "context" \in DOMAIN callArgs'
                           THEN callArgs'["context"] ELSE context
            /\ max_episodes' = max_episodes]_vars

C20_Witness ==
    /\ pc = "restored"
    /\ Len(episodes) = 2 /\ Len(actions) = 3 /\ context = [project |-> "proj1"]
    /\ << episodes, actions, context >> = calls.exported

\* the run of process_intent is over: a response was built, an HTTP 500 was
\* raised, or the cancellation left the handler
RunEnded == pc \in {"done", "http500", "cancelled"}

\* C21 as stated: a step whose in-flight adapter call was cancelled is FAILED
\* with an error attached and no later step is started; when the run has
\* ended no step is RUNNING.
C21_CancellationFails ==
    /\ \A i \in StepIds :
          (\E k \in 1..Len(calls) : calls[k].step = i /\ calls[k].out = "cancel")
          => /\ steps[i].status = "failed"
             /\ steps[i].error # NoneVal
             /\ \A j \in StepIds : j > i => steps[j].status = "pending"
    /\ RunEnded => \A i \in StepIds : steps[i].status # "running"

\* C22 as stated: a request is attempted at most 3 times, an attempt is
\* followed by another one only if it failed in the transport, and a response
\* with status >= 400 is surfaced by the attempt that received it.
C22_RetryTransportOnly ==
    /\ Len(calls) <= 3
    /\ \A k \in 1..Len(calls) :
          k < Len(calls) => calls[k].out \in TransportFailures
    /\ \A k \in 1..Len(calls) :
          calls[k].out \in {"400", "404", "500"} => (k = Len(calls) /\ pc = "raised")

\* C23: a step goes PENDING -> RUNNING -> COMPLETED or FAILED and in no other
\* way, and does not change once COMPLETED or FAILED; a result is set only on
\* COMPLETED steps and an error only on FAILED ones; started_at is set exactly
\* for the steps that left PENDING and completed_at exactly for the terminal
\* ones; at most one step is RUNNING.
C23_StepStateMachine ==
    /\ [](/\ \A i \in StepIds :
               /\ steps[i].status \in {"pending", "running", "completed", "failed"}
               /\ steps[i].result # NoneVal => steps[i].status = "completed"
               /\ steps[i].error # NoneVal => steps[i].status = "failed"
               /\ (steps[i].started_at # NoneVal) <=> (steps[i].status # "pending")
               /\ (steps[i].completed_at # NoneVal) <=> Terminal(i)
          /\ Cardinality({i \in StepIds : steps[i].status = "running"}) <= 1)
    /\ [][\A i \in StepIds :
             /\ Len(steps') = Len(steps)
             /\ \/ steps'[i].status = steps[i].status
                \/ steps[i].status = "pending" /\ steps'[i].status = "running"
                \/ steps[i].status = "running"
                      /\ steps'[i].status \in {"completed", "failed"}
             /\ Terminal(i) => steps'[i] = steps[i]]_vars

C23_Witness ==
    /\ pc = "done" /\ debug /\ Len(steps) = 2
    /\ steps[1].status = "failed" /\ steps[1].error # NoneVal
    /\ steps[1].result = NoneVal
    /\ steps[2].status = "completed" /\ steps[2].result # NoneVal
    /\ steps[2].completed_at # NoneVal

\* the predicates of the rule-based parser that the prompt satisfies
PromptHas(w) == Contains(lower(prompt), w)
Matching ==
    [create_model |-> PromptHas("create") /\ PromptHas("model"),
     compile |-> PromptHas("compile"),
     generate_service |-> PromptHas("generate") /\ PromptHas("service"),
     open_review |-> PromptHas("open") /\ (PromptHas("pr") \/ PromptHas("review")),
     publish |-> PromptHas("publish")]
RuleOrder == << "create_model", "compile", "generate_service", "open_review", "publish" >>

\* C24: when the rule-based parser is used (the NL model raised or answered
\* nothing), the plan has exactly one step per predicate that the lowercased
\* prompt satisfies, in the order create_model, compile, generate_service,
\* open_review, publish whatever the word order of the prompt; so it has at
\* most 5 steps and is empty when no predicate matches.
C24_RuleOrder ==
    (pc # "request" /\ llmMode \in {"raise", "none", "empty"}) =>
       /\ parsed.ok
       /\ [i \in 1..Len(parsed.val) |-> parsed.val[i].v.action]
             = SelectSeq(RuleOrder, LAMBDA a : Matching[a])
       /\ Len(parsed.val) <= 5
       /\ (\A a \in DOMAIN Matching : ~Matching[a]) => parsed.val = << >>

C24_Witness ==
    /\ pc # "request" /\ llmMode = "raise"
    /\ prompt = "Compile it, then CREATE a trade model"
    /\ parsed = Ok(<< MkStep("create_model", [name |-> Str("Trade")]),
                      MkStep("compile", EmptyDict) >>)

\* no worker is inside add_episode or add_action
Quiescent == \A w \in Workers : pc[w] = "idle"

C26_NeverPartial ==
    /\ status # "partial"
    /\ pc = "done" => status \in {"planned", "completed", "failed"}

C26_Witness ==
    /\ pc = "done" /\ execute /\ ~debug /\ status = "failed"
    /\ Len(steps) >= 2
    /\ steps[1].status = "failed"
    /\ \A i \in 2..Len(steps) : steps[i].status = "pending"

\* C27: in every state of the memory store, for every max_episodes >= 0, the
\* store holds at most max_episodes episodes and at most 10 * max_episodes
\* actions, whatever sequence of add_episode, add_action, import_history,
\* set_context and clear_context led to it.
C27_CapacityAlways ==
    /\ Len(episodes) <= max_episodes
    /\ Len(actions) <= max_episodes * 10

\* step i was built from a plan item that validate_plan annotated with
\* validation_error
Annotated(i) ==
    /\ parsed # NoneVal /\ parsed.ok /\ i <= Len(parsed.val)
    /\ parsed.val[i].t = "dict"
    /\ "validation_error" \in DOMAIN parsed.val[i].v

\* C28: a step whose plan item carries validation_error never reaches a
\* handler or an adapter: once executed it is FAILED; when its action is in
\* the dispatch table the only call made for it is check_action, which raises
\* the annotated message again (an unknown action fails at the lookup, before
\* check_action); outside debug mode the run stops there.
C28_AnnotatedNeverDispatched ==
    \A i \in StepIds :
       (Annotated(i) /\ steps[i].status \notin {"pending", "running"}) =>
          /\ steps[i].status = "failed"
          /\ ~HasCall(i, "handler")
          /\ \A a \in AdapterCalls : ~HasCall(i, a)
          /\ steps[i].action \in handlers =>
                /\ CallsOf(i) = << [step |-> i, call |-> "check_action", out |-> "raise"] >>
                /\ steps[i].error = Str(parsed.val[i].v.validation_error)
          /\ steps[i].action \notin handlers => CallsOf(i) = << >>
          /\ ~debug => \A j \in StepIds : j > i =>
                          steps[j].status = "pending" /\ CallsOf(j) = << >>

C28_Witness ==
    /\ pc = "done" /\ execute /\ ~debug /\ Len(steps) = 2
    /\ Annotated(1) /\ steps[1].action = "create_model"
    /\ steps[1].status = "failed" /\ steps[2].status = "pending"
    /\ CallsOf(1) = << [step |-> 1, call |-> "check_action", out |-> "raise"] >>

\* step i was built from a plan item that validate_plan flagged
\* requires_approval
Flagged(i) ==
    /\ parsed # NoneVal /\ parsed.ok /\ i <= Len(parsed.val)
    /\ parsed.val[i].t = "dict"
    /\ "requires_approval" \in DOMAIN parsed.val[i].v

C30_FlowActionsKnown ==
    /\ \A i \in 1..Len(steps) : steps[i].action \in handlers
    /\ pc = "error" => status # "Unknown action: " \o steps[cur].action

====
